---- MODULE Spec2Model ----
(***************************************************************************)
(* A model of vchtml: Diff, Patch and Merge of HTML documents.             *)
(*                                                                         *)
(* Representation.  A Go string is a sequence of one-character strings, so *)
(* that len() and slicing are Len and SubSeq.  An html.Node is a record    *)
(* [Type, Data, Attr, Kids]; the linked list FirstChild/NextSibling is the *)
(* sequence Kids, and a pointer into the tree is the path that reaches it. *)
(* An HTML text is represented by the sequence of top-level nodes it       *)
(* spells out, with adjacent text runs joined (as string concatenation     *)
(* joins them).                                                            *)
(***************************************************************************)
EXTENDS Integers, Sequences, FiniteSets, TLC

VARIABLES
    pc,        \* position of the driver that calls the library
    oldHTML,   \* base document text
    newHTML,   \* revised document text (Diff's second argument)
    deltaA,    \* delta of party A (or the delta returned by Diff)
    deltaB,    \* delta of party B
    patched,   \* result of Patch(base, deltaA): [html, err]
    patchedB,  \* result of Patch(base, deltaB)
    merged,    \* result of Merge(base, A, B): [html, delta, conflicts, err]
    mergedBA,  \* result of Merge(base, B, A)
    conflAB,   \* detectConflicts(A.ops, B.ops)
    conflBA,   \* detectConflicts(B.ops, A.ops)
    newHTMLB,  \* revised document text of party B (second call of Diff)
    given,     \* text handed to Patch as the base
    deltas,    \* list of deltas handed to MergeAll
    mergedAll, \* result of MergeAll(base, deltas)
    heap,      \* backing arrays of the operation slices: array number -> slots
    kept,      \* deltas the caller holds: the slice of each and its operations
               \* when it was created
    calls,     \* number of Merge calls the caller has made on kept deltas
    pathing,   \* arguments and results of GetNode and GetPath
    xform      \* result of transformOp(b, a): [ops, panic]

vars == <<pc, oldHTML, newHTML, deltaA, deltaB, patched, patchedB, merged,
          mergedBA, conflAB, conflBA, newHTMLB, given, deltas, mergedAll,
          heap, kept, calls, pathing, xform>>

\* the part of the state only the later drivers use
extra == <<newHTMLB, given, deltas, mergedAll>>

\* the storage of the operation slices, which only one driver looks at
store == <<heap, kept, calls, pathing, xform>>

----------------------------------------------------------------------------
(* Bounds of the model *)

MaxKids == 2      \* children of <body> in an enumerated document
MaxOpsA == 2      \* operations in an enumerated delta A
MaxOpsB == 1      \* operations in an enumerated delta B
MaxText == 2      \* characters of the base text of the text-merge driver
MaxInserts == 2   \* INSERT_NODE operations of a delta of the sibling driver
MaxDeltas == 3    \* deltas in a list handed to MergeAll
MaxCalls == 3     \* Merge calls of the driver that keeps the deltas
MaxPath == 3      \* length of a path handed to GetNode

----------------------------------------------------------------------------
(* Strings *)

\* s[i:j] of Go, 0-based, half open
Slice(s, i, j) == SubSeq(s, i + 1, j)

----------------------------------------------------------------------------
(* types.go: operation kinds, Operation, Delta, Conflict *)

OpInsertNode == "INSERT_NODE"
OpDeleteNode == "DELETE_NODE"
OpMoveNode   == "MOVE_NODE"
OpUpdateAttr == "UPDATE_ATTR"
OpUpdateText == "UPDATE_TEXT"
OpInsertText == "INSERT_TEXT"
OpDeleteText == "DELETE_TEXT"

Operation(type, path, key, oldv, newv, data, pos) ==
    [Type |-> type, Path |-> path, Key |-> key, OldValue |-> oldv,
     NewValue |-> newv, NodeData |-> data, Position |-> pos]

Delta(hash, ops, ts, author) ==
    [BaseHash |-> hash, Operations |-> ops, Timestamp |-> ts, Author |-> author]

Conflict(type, descr, path, ops) ==
    [Type |-> type, Description |-> descr, Path |-> path, Ops |-> ops]

NilDelta == [BaseHash |-> <<>>, Operations |-> <<>>, Timestamp |-> 0, Author |-> "nil"]

----------------------------------------------------------------------------
(* html.Node *)

TextNode     == "Text"
DocumentNode == "Document"
ElementNode  == "Element"

Node(type, data, attr, kids) ==
    [Type |-> type, Data |-> data, Attr |-> attr, Kids |-> kids]

Attribute(k, v) == [Key |-> k, Val |-> v]

\* the nil *html.Node
Nil == [Type |-> "nil", Data |-> <<>>, Attr |-> <<>>, Kids |-> <<>>]

Text(s)        == Node(TextNode, s, <<>>, <<>>)
Elem(tag, a, k) == Node(ElementNode, tag, a, k)

TagHtml == <<"h","t","m","l">>
TagHead == <<"h","e","a","d">>
TagBody == <<"b","o","d","y">>
TagDiv  == <<"d","i","v">>
TagP    == <<"p">>

----------------------------------------------------------------------------
(* dom.go *)

\* Adjacent text runs of a child list read as one text node, and an empty
\* run as none: what the tokenizer makes of the rendered string.
RECURSIVE JoinText(_)
JoinText(kids) ==
    IF kids = <<>> THEN <<>>
    ELSE LET first == [Head(kids) EXCEPT !.Kids = JoinText(@)]
             rest  == JoinText(Tail(kids))
         IN  IF first.Type = TextNode /\ first.Data = <<>> THEN rest
             ELSE IF first.Type = TextNode /\ rest # <<>> /\ rest[1].Type = TextNode
             THEN <<Text(first.Data \o rest[1].Data)>> \o Tail(rest)
             ELSE <<first>> \o rest

IsFullDoc(h) ==
    /\ Len(h) = 1
    /\ h[1].Type = ElementNode
    /\ h[1].Data = TagHtml

\* html.Parse: always a Document root holding <html><head><body>; content
\* written without that skeleton lands in <body>.
ParseHTML(content) ==
    IF IsFullDoc(content)
    THEN Node(DocumentNode, <<>>, <<>>, JoinText(content))
    ELSE Node(DocumentNode, <<>>, <<>>,
              <<Elem(TagHtml, <<>>,
                     <<Elem(TagHead, <<>>, <<>>),
                       Elem(TagBody, <<>>, JoinText(content))>>)>>)

\* html.Render of a node: the text that spells the node out.  A Document
\* renders as its children, any other node as itself.
RenderNode(n) ==
    IF n.Type = DocumentNode THEN JoinText(n.Kids) ELSE JoinText(<<n>>)

getChildAtIndex(parent, index) ==
    IF index >= 0 /\ index < Len(parent.Kids) THEN parent.Kids[index + 1] ELSE Nil

RECURSIVE GetNode(_, _)
GetNode(current, path) ==
    IF path = <<>> THEN current
    ELSE LET child == getChildAtIndex(current, Head(path))
         IN  IF child = Nil THEN Nil ELSE GetNode(child, Tail(path))

\* Writing through the pointer GetNode returned: the tree with the node at
\* path replaced.
RECURSIVE SetNode(_, _, _)
SetNode(n, path, new) ==
    IF path = <<>> THEN new
    ELSE [n EXCEPT !.Kids[Head(path) + 1] = SetNode(@, Tail(path), new)]

----------------------------------------------------------------------------
(* diff.go *)

hashString(s) == <<"sha256", s>>

AttrKeyOrder == <<"class", "id">>

Reverse(s) == [i \in 1..Len(s) |-> s[Len(s) + 1 - i]]

\* the map built from a node's attribute list: the keys, and the value of
\* the last pair of a key
AttrKeys(n) == {n.Attr[i].Key : i \in 1..Len(n.Attr)}
AttrVal(n, k) ==
    LET I == {i \in 1..Len(n.Attr) : n.Attr[i].Key = k}
    IN  n.Attr[CHOOSE i \in I : \A j \in I : j <= i].Val

\* range over a Go map: some order of its keys; asc picks one of the two
\* orders the model distinguishes
MapRange(keys, asc) ==
    SelectSeq(IF asc THEN AttrKeyOrder ELSE Reverse(AttrKeyOrder),
                     LAMBDA k : k \in keys)

RECURSIVE FlatMap(_, _)
FlatMap(F(_), s) == IF s = <<>> THEN <<>> ELSE F(Head(s)) \o FlatMap(F, Tail(s))

\* diffAttributes without the comparison of the two values
diffAttributesAll(oldNode, newNode, path, ord) ==
    LET newKeys == AttrKeys(newNode)
        set(k) == <<Operation(OpUpdateAttr, path, k,
                              IF k \in AttrKeys(oldNode) THEN AttrVal(oldNode, k)
                              ELSE <<>>,
                              AttrVal(newNode, k), <<>>, 0)>>
    IN  FlatMap(set, MapRange(newKeys, ord[2]))

\* diffAttributes reporting a key the new node lost as an update to the
\* empty value
diffAttributesRemoving(oldNode, newNode, path, ord) ==
    LET oldKeys == AttrKeys(oldNode)
        newKeys == AttrKeys(newNode)
        upd(k) == IF k \notin newKeys
                  THEN <<Operation(OpUpdateAttr, path, k, AttrVal(oldNode, k),
                                   <<>>, <<>>, 0)>>
                  ELSE IF AttrVal(oldNode, k) # AttrVal(newNode, k)
                  THEN <<Operation(OpUpdateAttr, path, k, AttrVal(oldNode, k),
                                   AttrVal(newNode, k), <<>>, 0)>>
                  ELSE <<>>
        add(k) == IF k \notin oldKeys
                  THEN <<Operation(OpUpdateAttr, path, k, <<>>,
                                   AttrVal(newNode, k), <<>>, 0)>>
                  ELSE <<>>
    IN  FlatMap(upd, MapRange(oldKeys, ord[1])) \o FlatMap(add, MapRange(newKeys, ord[2]))

diffAttributes(oldNode, newNode, path, ord) ==
    LET oldKeys == AttrKeys(oldNode)
        newKeys == AttrKeys(newNode)
        upd(k) == IF k \notin newKeys THEN <<>>
                  ELSE IF AttrVal(oldNode, k) # AttrVal(newNode, k)
                  THEN <<Operation(OpUpdateAttr, path, k, AttrVal(oldNode, k),
                                   AttrVal(newNode, k), <<>>, 0)>>
                  ELSE <<>>
        add(k) == IF k \notin oldKeys
                  THEN <<Operation(OpUpdateAttr, path, k, <<>>,
                                   AttrVal(newNode, k), <<>>, 0)>>
                  ELSE <<>>
    IN  FlatMap(upd, MapRange(oldKeys, ord[1])) \o FlatMap(add, MapRange(newKeys, ord[2]))

getChildrenList(n) == n.Kids

RECURSIVE diffNodes(_, _, _, _)
RECURSIVE diffChildren(_, _, _, _)

diffNodes(oldNode, newNode, path, ord) ==
    LET attrOps == IF oldNode.Type = ElementNode
                   THEN diffAttributes(oldNode, newNode, path, ord) ELSE <<>>
        textOps == IF oldNode.Type = TextNode /\ oldNode.Data # newNode.Data
                   THEN <<Operation(OpUpdateText, path, "", oldNode.Data,
                                    newNode.Data, <<>>, 0)>>
                   ELSE <<>>
    IN  attrOps \o textOps \o diffChildren(oldNode, newNode, path, ord)

\* diffChildren emitting the deletes from the first surplus child upwards
diffChildrenAscending(oldNode, newNode, parentPath, ord) ==
    LET oldChildren == getChildrenList(oldNode)
        newChildren == getChildrenList(newNode)
        commonLen == IF Len(newChildren) < Len(oldChildren)
                     THEN Len(newChildren) ELSE Len(oldChildren)
        rec(i) == diffNodes(oldChildren[i + 1], newChildren[i + 1],
                            Append(parentPath, i), ord)
        nDel == Len(oldChildren) - commonLen
        nIns == Len(newChildren) - commonLen
        dels == [j \in 1..nDel |->
                   Operation(OpDeleteNode, Append(parentPath, commonLen + j - 1),
                             "", <<>>, <<>>, <<>>, 0)]
        inss == [j \in 1..nIns |->
                   Operation(OpInsertNode, parentPath, "", <<>>, <<>>,
                             RenderNode(newChildren[commonLen + j]), commonLen + j - 1)]
    IN  FlatMap(rec, [i \in 1..commonLen |-> i - 1]) \o dels \o inss

diffChildren(oldNode, newNode, parentPath, ord) ==
    LET oldChildren == getChildrenList(oldNode)
        newChildren == getChildrenList(newNode)
        commonLen == IF Len(newChildren) < Len(oldChildren)
                     THEN Len(newChildren) ELSE Len(oldChildren)
        rec(i) == diffNodes(oldChildren[i + 1], newChildren[i + 1],
                            Append(parentPath, i), ord)
        nDel == Len(oldChildren) - commonLen
        nIns == Len(newChildren) - commonLen
        dels == [j \in 1..nDel |->
                   Operation(OpDeleteNode, Append(parentPath, Len(oldChildren) - j),
                             "", <<>>, <<>>, <<>>, 0)]
        inss == [j \in 1..nIns |->
                   Operation(OpInsertNode, parentPath, "", <<>>, <<>>,
                             RenderNode(newChildren[commonLen + j]), commonLen + j - 1)]
    IN  FlatMap(rec, [i \in 1..commonLen |-> i - 1]) \o dels \o inss

Diff(old, new, author, now, ord) ==
    LET oldDoc == ParseHTML(old)
        newDoc == ParseHTML(new)
    IN  Delta(hashString(old), diffNodes(oldDoc, newDoc, <<>>, ord), now, author)

----------------------------------------------------------------------------
(* patch.go *)

NoErr == [msg |-> "", op |-> -1, type |-> ""]
Err(m) == [msg |-> m, op |-> -1, type |-> ""]

getAttr(n, key) ==
    LET I == {i \in 1..Len(n.Attr) : n.Attr[i].Key = key}
    IN  IF I = {} THEN <<>>
        ELSE n.Attr[CHOOSE i \in I : \A j \in I : i <= j].Val

\* setAttr adding the pair without looking for the key
setAttrAppending(n, key, val) ==
    [n EXCEPT !.Attr = Append(@, Attribute(key, val))]

setAttr(n, key, val) ==
    LET I == {i \in 1..Len(n.Attr) : n.Attr[i].Key = key}
    IN  IF I # {}
        THEN [n EXCEPT !.Attr[CHOOSE i \in I : \A j \in I : i <= j].Val = val]
        ELSE [n EXCEPT !.Attr = Append(@, Attribute(key, val))]

\* insertChildAt putting the child behind the child at index
insertChildAtAfter(parent, child, index) ==
    LET ref == getChildAtIndex(parent, index)
    IN  IF ref # Nil
        THEN [parent EXCEPT !.Kids = SubSeq(@, 1, index + 1) \o <<child>>
                                       \o SubSeq(@, index + 2, Len(@))]
        ELSE [parent EXCEPT !.Kids = Append(@, child)]

\* insertChildAt reading a negative index as the front
insertChildAtFront(parent, child, index) ==
    LET ref == getChildAtIndex(parent, index)
    IN  IF ref # Nil
        THEN [parent EXCEPT !.Kids = SubSeq(@, 1, index) \o <<child>>
                                       \o SubSeq(@, index + 1, Len(@))]
        ELSE IF index < 0 THEN [parent EXCEPT !.Kids = <<child>> \o @]
        ELSE [parent EXCEPT !.Kids = Append(@, child)]

insertChildAt(parent, child, index) ==
    LET ref == getChildAtIndex(parent, index)
    IN  IF ref # Nil
        THEN [parent EXCEPT !.Kids = SubSeq(@, 1, index) \o <<child>>
                                       \o SubSeq(@, index + 1, Len(@))]
        ELSE [parent EXCEPT !.Kids = Append(@, child)]

\* RemoveChild leaving the children of the removed child in its place
RemoveChildOnly(parent, index) ==
    [parent EXCEPT !.Kids = SubSeq(@, 1, index) \o @[index + 1].Kids
                              \o SubSeq(@, index + 2, Len(@))]

\* Node.RemoveChild: the parent without its child number index
RemoveChild(parent, index) ==
    [parent EXCEPT !.Kids = SubSeq(@, 1, index) \o SubSeq(@, index + 2, Len(@))]

\* html.ParseFragment(data, context): refuses a context that is not an
\* element; otherwise the list of nodes the fragment spells out
ParseFragment(data, context) ==
    IF context.Type # ElementNode
    THEN [err |-> "html: ParseFragment of non-element Node", nodes |-> <<>>]
    ELSE [err |-> "", nodes |-> JoinText(data)]

Front(s) == SubSeq(s, 1, Len(s) - 1)
Last(s) == s[Len(s)]

\* applyOp mutates the tree under root and returns an error; here it
\* returns the error and the tree after the call.
applyOp(root, op) ==
    LET node == GetNode(root, op.Path)
        fail(m) == [err |-> m, root |-> root]
        ok(r)   == [err |-> "", root |-> r]
    IN
    CASE op.Type = OpUpdateText ->
           IF node = Nil THEN fail("node not found")
           ELSE IF node.Type # TextNode
           THEN fail("target node for UPDATE_TEXT is not a text node")
           ELSE IF node.Data # op.OldValue
           THEN fail("UPDATE_TEXT old value mismatch")
           ELSE ok(SetNode(root, op.Path, [node EXCEPT !.Data = op.NewValue]))
      [] op.Type = OpInsertText ->
           IF node = Nil THEN fail("node not found")
           ELSE IF node.Type # TextNode
           THEN fail("target node for INSERT_TEXT is not a text node")
           ELSE IF op.Position < 0 \/ op.Position > Len(node.Data)
           THEN fail("INSERT_TEXT position out of bounds")
           ELSE ok(SetNode(root, op.Path,
                     [node EXCEPT !.Data = Slice(@, 0, op.Position) \o op.NewValue
                                           \o Slice(@, op.Position, Len(@))]))
      [] op.Type = OpDeleteText ->
           LET deleteLen == Len(op.OldValue)
           IN  IF node = Nil THEN fail("node not found")
               ELSE IF node.Type # TextNode
               THEN fail("target node for DELETE_TEXT is not a text node")
               ELSE IF op.Position < 0 \/ op.Position + deleteLen > Len(node.Data)
               THEN fail("DELETE_TEXT position out of bounds")
               ELSE IF Slice(node.Data, op.Position, op.Position + deleteLen) # op.OldValue
               THEN fail("DELETE_TEXT old value mismatch")
               ELSE ok(SetNode(root, op.Path,
                         [node EXCEPT !.Data = Slice(@, 0, op.Position)
                               \o Slice(@, op.Position + deleteLen, Len(@))]))
      [] op.Type = OpUpdateAttr ->
           IF node = Nil THEN fail("node not found")
           ELSE IF node.Type # ElementNode
           THEN fail("target node for UPDATE_ATTR is not an element node")
           ELSE ok(SetNode(root, op.Path, setAttr(node, op.Key, op.NewValue)))
      [] op.Type = OpInsertNode ->
           IF node = Nil THEN fail("node not found")
           ELSE LET frag == ParseFragment(op.NodeData, node)
                IN  IF frag.err # "" THEN fail("failed to parse node data")
                    ELSE IF Len(frag.nodes) = 0 THEN ok(root)
                    ELSE ok(SetNode(root, op.Path,
                              insertChildAt(node, frag.nodes[1], op.Position)))
      [] op.Type = OpDeleteNode ->
           IF node = Nil THEN fail("node not found")
           ELSE IF op.Path = <<>> THEN fail("cannot delete root node or orphan")
           ELSE ok(SetNode(root, Front(op.Path),
                     RemoveChild(GetNode(root, Front(op.Path)), Last(op.Path))))
      [] OTHER -> fail("unknown operation type")

\* the operation kinds applyOp has a case for
AppliedKinds == {OpUpdateText, OpInsertText, OpDeleteText, OpUpdateAttr,
                 OpInsertNode, OpDeleteNode}

\* the loop of Patch passing over the operations of a kind it does not know
RECURSIVE applyOpsSkipping(_, _, _)
applyOpsSkipping(doc, ops, i) ==
    IF i >= Len(ops) THEN [err |-> NoErr, root |-> doc]
    ELSE IF ops[i + 1].Type \notin AppliedKinds THEN applyOpsSkipping(doc, ops, i + 1)
    ELSE LET r == applyOp(doc, ops[i + 1])
         IN  IF r.err # ""
             THEN [err |-> [msg |-> r.err, op |-> i, type |-> ops[i + 1].Type],
                   root |-> r.root]
             ELSE applyOpsSkipping(r.root, ops, i + 1)

\* the loop of Patch with step in the place of applyOp
RECURSIVE applyOpsWith(_, _, _, _)
applyOpsWith(step(_, _), doc, ops, i) ==
    IF i >= Len(ops) THEN [err |-> NoErr, root |-> doc]
    ELSE LET r == step(doc, ops[i + 1])
         IN  IF r.err # ""
             THEN [err |-> [msg |-> r.err, op |-> i, type |-> ops[i + 1].Type],
                   root |-> r.root]
             ELSE applyOpsWith(step, r.root, ops, i + 1)

\* the operation addresses a Text node of the tree
OnText(root, op) ==
    GetNode(root, op.Path) # Nil /\ GetNode(root, op.Path).Type = TextNode

\* applyOp writing the new text without comparing the old one
applyOpTextUnchecked(root, op) ==
    IF op.Type = OpUpdateText /\ OnText(root, op)
    THEN [err |-> "",
          root |-> SetNode(root, op.Path,
                           [GetNode(root, op.Path) EXCEPT !.Data = op.NewValue])]
    ELSE applyOp(root, op)

\* applyOp cutting the range of a DELETE_TEXT without comparing its text
applyOpDeleteUnverified(root, op) ==
    IF /\ op.Type = OpDeleteText
       /\ OnText(root, op)
       /\ op.Position >= 0
       /\ op.Position + Len(op.OldValue) <= Len(GetNode(root, op.Path).Data)
    THEN [err |-> "",
          root |-> SetNode(root, op.Path,
                           [GetNode(root, op.Path) EXCEPT
                              !.Data = Slice(@, 0, op.Position)
                                       \o Slice(@, op.Position + Len(op.OldValue), Len(@))])]
    ELSE applyOp(root, op)

\* applyOp putting the text of an INSERT_TEXT behind the end at the end
applyOpInsertClamped(root, op) ==
    IF /\ op.Type = OpInsertText
       /\ OnText(root, op)
       /\ op.Position > Len(GetNode(root, op.Path).Data)
    THEN [err |-> "",
          root |-> SetNode(root, op.Path,
                           [GetNode(root, op.Path) EXCEPT !.Data = @ \o op.NewValue])]
    ELSE applyOp(root, op)

applyOpsTextUnchecked(doc, ops, i) == applyOpsWith(applyOpTextUnchecked, doc, ops, i)

applyOpsDeleteUnverified(doc, ops, i) == applyOpsWith(applyOpDeleteUnverified, doc, ops, i)

applyOpsInsertClamped(doc, ops, i) == applyOpsWith(applyOpInsertClamped, doc, ops, i)

\* the loop of Patch over delta.Operations from operation number i (0-based)
RECURSIVE applyOps(_, _, _)
applyOps(doc, ops, i) ==
    IF i >= Len(ops) THEN [err |-> NoErr, root |-> doc]
    ELSE LET r == applyOp(doc, ops[i + 1])
         IN  IF r.err # ""
             THEN [err |-> [msg |-> r.err, op |-> i, type |-> ops[i + 1].Type],
                   root |-> r.root]
             ELSE applyOps(r.root, ops, i + 1)

\* Patch handing back the partly patched document together with the error
PatchPartial(baseHTML, delta) ==
    IF hashString(baseHTML) # delta.BaseHash
    THEN [html |-> <<>>, err |-> Err("base hash mismatch")]
    ELSE LET r == applyOps(ParseHTML(baseHTML), delta.Operations, 0)
         IN  [html |-> RenderNode(r.root), err |-> r.err]

\* Patch hashing the rendered tree of the base instead of its raw text
PatchHashOfTree(baseHTML, delta) ==
    IF hashString(RenderNode(ParseHTML(baseHTML))) # delta.BaseHash
    THEN [html |-> <<>>, err |-> Err("base hash mismatch")]
    ELSE LET r == applyOps(ParseHTML(baseHTML), delta.Operations, 0)
         IN  IF r.err # NoErr THEN [html |-> <<>>, err |-> r.err]
             ELSE [html |-> RenderNode(r.root), err |-> NoErr]

Patch(baseHTML, delta) ==
    IF hashString(baseHTML) # delta.BaseHash
    THEN [html |-> <<>>, err |-> Err("base hash mismatch")]
    ELSE LET r == applyOps(ParseHTML(baseHTML), delta.Operations, 0)
         IN  IF r.err # NoErr THEN [html |-> <<>>, err |-> r.err]
             ELSE [html |-> RenderNode(r.root), err |-> NoErr]

----------------------------------------------------------------------------
(* merge.go *)

pathEqual(a, b) ==
    /\ Len(a) = Len(b)
    /\ \A i \in 1..Len(a) : a[i] = b[i]

\* isDescendant with the length test off by one: a path counts as its own
\* descendant
isDescendantSelf(ancestor, child) ==
    /\ ~(Len(child) < Len(ancestor))
    /\ \A i \in 1..Len(ancestor) : child[i] = ancestor[i]

isDescendant(ancestor, child) ==
    /\ ~(Len(child) <= Len(ancestor))
    /\ \A i \in 1..Len(ancestor) : child[i] = ancestor[i]

isSiblingAffected(parent, index, target) ==
    /\ ~(Len(target) <= Len(parent))
    /\ \A i \in 1..Len(parent) : target[i] = parent[i]
    /\ target[Len(parent) + 1] >= index

\* The key string of an operation.  The printed path is one-to-one with the
\* path, and the suffixes ":I:" and ":T:" keep the three shapes apart, so
\* the key is the tuple of its parts; the two payloads of a text key are
\* joined by ":" as in the string.
pathKey(op) ==
    IF op.Type = OpInsertNode
    THEN [s |-> op.Path, tag |-> "I", pos |-> op.Position, val |-> <<>>]
    ELSE IF op.Type = OpInsertText \/ op.Type = OpDeleteText
    THEN [s |-> op.Path, tag |-> "T", pos |-> op.Position,
          val |-> op.NewValue \o <<":">> \o op.OldValue]
    ELSE [s |-> op.Path, tag |-> "", pos |-> 0, val |-> <<>>]

\* isConflict taking two UPDATE_ATTR on one node for a conflict whatever
\* their keys
isConflictAnyKey(a, b) ==
    IF a.Type = OpDeleteNode \/ b.Type = OpDeleteNode
    THEN ~(a.Type = OpDeleteNode /\ b.Type = OpDeleteNode)
    ELSE IF a.Type = OpUpdateText /\ b.Type = OpUpdateText
    THEN a.NewValue # b.NewValue
    ELSE IF (a.Type = OpInsertText \/ a.Type = OpDeleteText)
            /\ (b.Type = OpInsertText \/ b.Type = OpDeleteText)
    THEN FALSE
    ELSE IF \/ (a.Type = OpUpdateText /\ (b.Type = OpInsertText \/ b.Type = OpDeleteText))
            \/ (b.Type = OpUpdateText /\ (a.Type = OpInsertText \/ a.Type = OpDeleteText))
    THEN TRUE
    ELSE IF a.Type = OpUpdateAttr /\ b.Type = OpUpdateAttr
    THEN a.NewValue # b.NewValue
    ELSE FALSE

\* isConflict comparing the old values of two UPDATE_TEXT instead of the new
isConflictOldValue(a, b) ==
    IF a.Type = OpDeleteNode \/ b.Type = OpDeleteNode
    THEN ~(a.Type = OpDeleteNode /\ b.Type = OpDeleteNode)
    ELSE IF a.Type = OpUpdateText /\ b.Type = OpUpdateText
    THEN a.OldValue # b.OldValue
    ELSE IF (a.Type = OpInsertText \/ a.Type = OpDeleteText)
            /\ (b.Type = OpInsertText \/ b.Type = OpDeleteText)
    THEN FALSE
    ELSE IF \/ (a.Type = OpUpdateText /\ (b.Type = OpInsertText \/ b.Type = OpDeleteText))
            \/ (b.Type = OpUpdateText /\ (a.Type = OpInsertText \/ a.Type = OpDeleteText))
    THEN TRUE
    ELSE IF a.Type = OpUpdateAttr /\ b.Type = OpUpdateAttr
    THEN IF a.Key = b.Key THEN a.NewValue # b.NewValue ELSE FALSE
    ELSE FALSE

isConflict(a, b) ==
    IF a.Type = OpDeleteNode \/ b.Type = OpDeleteNode
    THEN ~(a.Type = OpDeleteNode /\ b.Type = OpDeleteNode)
    ELSE IF a.Type = OpUpdateText /\ b.Type = OpUpdateText
    THEN a.NewValue # b.NewValue
    ELSE IF (a.Type = OpInsertText \/ a.Type = OpDeleteText)
            /\ (b.Type = OpInsertText \/ b.Type = OpDeleteText)
    THEN FALSE
    ELSE IF \/ (a.Type = OpUpdateText /\ (b.Type = OpInsertText \/ b.Type = OpDeleteText))
            \/ (b.Type = OpUpdateText /\ (a.Type = OpInsertText \/ a.Type = OpDeleteText))
    THEN TRUE
    ELSE IF a.Type = OpUpdateAttr /\ b.Type = OpUpdateAttr
    THEN IF a.Key = b.Key THEN a.NewValue # b.NewValue ELSE FALSE
    ELSE FALSE

\* mapA[key] after the loop that fills it: the last operation of opsA with
\* that key
MapHas(opsA, key) == \E i \in 1..Len(opsA) : pathKey(opsA[i]) = key
MapGet(opsA, key) ==
    LET I == {i \in 1..Len(opsA) : pathKey(opsA[i]) = key}
    IN  opsA[CHOOSE i \in I : \A j \in I : j <= i]

detectConflicts(opsA, opsB) ==
    LET forB(opB) ==
          LET keyB == pathKey(opB)
              direct ==
                IF MapHas(opsA, keyB) /\ isConflict(MapGet(opsA, keyB), opB)
                THEN <<Conflict("Direct",
                                <<"Conflict on node", opB.Path,
                                  MapGet(opsA, keyB).Type, opB.Type>>,
                                opB.Path, <<MapGet(opsA, keyB), opB>>)>>
                ELSE <<>>
              forA(opA) ==
                (IF opA.Type = OpDeleteNode /\ isDescendant(opA.Path, opB.Path)
                 THEN <<Conflict("Structure", <<"Modification of deleted node">>,
                                 opB.Path, <<opA, opB>>)>>
                 ELSE <<>>)
                \o
                (IF opB.Type = OpDeleteNode /\ isDescendant(opB.Path, opA.Path)
                 THEN <<Conflict("Structure", <<"Modification of deleted node">>,
                                 opA.Path, <<opA, opB>>)>>
                 ELSE <<>>)
          IN  direct \o FlatMap(forA, opsA)
    IN  FlatMap(forB, opsB)

\* transformOp leaving b where it is when a inserts text at the very offset
\* of b (the tie goes to b)
transformOpTieLeft(b, a) ==
    IF a.Type = OpInsertText /\ pathEqual(b.Path, a.Path) /\ b.Position > a.Position
    THEN [ops |-> <<[b EXCEPT !.Position = @ + Len(a.NewValue)]>>, panic |-> FALSE]
    ELSE [ops |-> <<b>>, panic |-> FALSE]

\* transformOp shifting every b at or after the start of the text a deletes
\* by the deleted length, without moving an insert to the start of the
\* deleted range and without dropping a delete
transformOpNoClamp(b, a) ==
    IF a.Type = OpDeleteText /\ pathEqual(b.Path, a.Path) /\ b.Position >= a.Position
    THEN [ops |-> <<[b EXCEPT !.Position = @ - Len(a.OldValue)]>>, panic |-> FALSE]
    ELSE IF a.Type = OpInsertText /\ pathEqual(b.Path, a.Path) /\ b.Position >= a.Position
    THEN [ops |-> <<[b EXCEPT !.Position = @ + Len(a.NewValue)]>>, panic |-> FALSE]
    ELSE [ops |-> <<b>>, panic |-> FALSE]

\* transformOp returns a list of operations; slicing a.Path[:len(a.Path)-1]
\* of an empty path aborts the call (panic).
transformOp(b, a) ==
    LET keep(nb) == [ops |-> <<nb>>, panic |-> FALSE]
        drop     == [ops |-> <<>>, panic |-> FALSE]
    IN
    IF (a.Type = OpInsertText \/ a.Type = OpDeleteText) /\ pathEqual(b.Path, a.Path)
    THEN IF a.Type = OpInsertText
         THEN IF b.Position >= a.Position
              THEN keep([b EXCEPT !.Position = @ + Len(a.NewValue)])
              ELSE keep(b)
         ELSE LET delLen == Len(a.OldValue)
                  aEnd   == a.Position + delLen
              IN  IF b.Position >= aEnd
                  THEN keep([b EXCEPT !.Position = @ - delLen])
                  ELSE IF b.Position >= a.Position
                  THEN IF b.Type = OpInsertText
                       THEN keep([b EXCEPT !.Position = a.Position])
                       ELSE IF b.Type = OpDeleteText THEN drop
                       ELSE keep(b)
                  ELSE IF b.Type = OpDeleteText
                          /\ b.Position + Len(b.OldValue) > a.Position
                       THEN drop
                       ELSE keep(b)
    ELSE IF a.Type = OpInsertNode
    THEN IF pathEqual(b.Path, a.Path)
         THEN IF a.Position <= b.Position
              THEN keep([b EXCEPT !.Position = @ + 1])
              ELSE keep(b)
         ELSE IF isSiblingAffected(a.Path, a.Position, b.Path)
                 /\ a.Position <= b.Path[Len(a.Path) + 1]
         THEN keep([b EXCEPT !.Path[Len(a.Path) + 1] = @ + 1])
         ELSE keep(b)
    ELSE IF a.Type = OpDeleteNode
    THEN IF Len(a.Path) = 0 THEN [ops |-> <<>>, panic |-> TRUE]
         ELSE LET parentPath == Front(a.Path)
                  delIndex   == Last(a.Path)
              IN  IF pathEqual(b.Path, parentPath)
                  THEN IF delIndex < b.Position
                       THEN keep([b EXCEPT !.Position = @ - 1])
                       ELSE keep(b)
                  ELSE IF isSiblingAffected(parentPath, delIndex, b.Path)
                          /\ delIndex < b.Path[Len(parentPath) + 1]
                  THEN keep([b EXCEPT !.Path[Len(parentPath) + 1] = @ - 1])
                  ELSE keep(b)
    ELSE keep(b)

\* the inner loops of Merge: currentOps transformed against opsA[i..]
RECURSIVE transformAgainst(_, _, _)
transformAgainst(currentOps, opsA, i) ==
    IF i > Len(opsA) THEN [ops |-> currentOps, panic |-> FALSE]
    ELSE LET rs == [k \in 1..Len(currentOps) |-> transformOp(currentOps[k], opsA[i])]
             get(k) == rs[k].ops
         IN  IF \E k \in 1..Len(rs) : rs[k].panic
             THEN [ops |-> <<>>, panic |-> TRUE]
             ELSE transformAgainst(FlatMap(get, [k \in 1..Len(rs) |-> k]), opsA, i + 1)

\* the outer loop of Merge: opsBTransformed for opsB[j..]
RECURSIVE transformAll(_, _, _)
transformAll(opsB, opsA, j) ==
    IF j > Len(opsB) THEN [ops |-> <<>>, panic |-> FALSE]
    ELSE LET one  == transformAgainst(<<opsB[j]>>, opsA, 1)
             rest == transformAll(opsB, opsA, j + 1)
         IN  IF one.panic \/ rest.panic THEN [ops |-> <<>>, panic |-> TRUE]
             ELSE [ops |-> one.ops \o rest.ops, panic |-> FALSE]

MergeResult(html, delta, conflicts, err, panic) ==
    [html |-> html, delta |-> delta, conflicts |-> conflicts, err |-> err,
     panic |-> panic]

\* Merge going on to transform and patch although conflicts were found
MergeKeepOutput(baseHTML, dA, dB) ==
    LET baseHash == hashString(baseHTML)
        conflicts == detectConflicts(dA.Operations, dB.Operations)
        tr == transformAll(dB.Operations, dA.Operations, 1)
        mergedDelta == Delta(baseHash, dA.Operations \o tr.ops, dA.Timestamp,
                             "system-merge")
        p == Patch(baseHTML, mergedDelta)
    IN  IF dA.BaseHash # baseHash \/ dB.BaseHash # baseHash
        THEN MergeResult(<<>>, NilDelta, <<>>, Err("base hash mismatch"), FALSE)
        ELSE IF tr.panic
        THEN MergeResult(<<>>, NilDelta, <<>>, NoErr, TRUE)
        ELSE MergeResult(p.html, mergedDelta, conflicts, p.err, FALSE)

\* Merge refusing only when both base hashes differ from the hash of the base
MergeHashBoth(baseHTML, dA, dB) ==
    LET baseHash == hashString(baseHTML)
        conflicts == detectConflicts(dA.Operations, dB.Operations)
        tr == transformAll(dB.Operations, dA.Operations, 1)
        mergedDelta == Delta(baseHash, dA.Operations \o tr.ops, dA.Timestamp,
                             "system-merge")
        p == Patch(baseHTML, mergedDelta)
    IN  IF dA.BaseHash # baseHash /\ dB.BaseHash # baseHash
        THEN MergeResult(<<>>, NilDelta, <<>>, Err("base hash mismatch"), FALSE)
        ELSE IF Len(conflicts) > 0
        THEN MergeResult(<<>>, NilDelta, conflicts, NoErr, FALSE)
        ELSE IF tr.panic
        THEN MergeResult(<<>>, NilDelta, <<>>, NoErr, TRUE)
        ELSE MergeResult(p.html, mergedDelta, <<>>, p.err, FALSE)

\* Merge putting the transformed operations of B in front of those of A
MergeBFirst(baseHTML, dA, dB) ==
    LET baseHash == hashString(baseHTML)
        conflicts == detectConflicts(dA.Operations, dB.Operations)
        tr == transformAll(dB.Operations, dA.Operations, 1)
        mergedDelta == Delta(baseHash, tr.ops \o dA.Operations, dA.Timestamp,
                             "system-merge")
        p == Patch(baseHTML, mergedDelta)
    IN  IF dA.BaseHash # baseHash \/ dB.BaseHash # baseHash
        THEN MergeResult(<<>>, NilDelta, <<>>, Err("base hash mismatch"), FALSE)
        ELSE IF Len(conflicts) > 0
        THEN MergeResult(<<>>, NilDelta, conflicts, NoErr, FALSE)
        ELSE IF tr.panic
        THEN MergeResult(<<>>, NilDelta, <<>>, NoErr, TRUE)
        ELSE MergeResult(p.html, mergedDelta, <<>>, p.err, FALSE)

Merge(baseHTML, dA, dB) ==
    LET baseHash == hashString(baseHTML)
        conflicts == detectConflicts(dA.Operations, dB.Operations)
        tr == transformAll(dB.Operations, dA.Operations, 1)
        mergedDelta == Delta(baseHash, dA.Operations \o tr.ops, dA.Timestamp,
                             "system-merge")
        p == Patch(baseHTML, mergedDelta)
    IN  IF dA.BaseHash # baseHash \/ dB.BaseHash # baseHash
        THEN MergeResult(<<>>, NilDelta, <<>>, Err("base hash mismatch"), FALSE)
        ELSE IF Len(conflicts) > 0
        THEN MergeResult(<<>>, NilDelta, conflicts, NoErr, FALSE)
        ELSE IF tr.panic
        THEN MergeResult(<<>>, NilDelta, <<>>, NoErr, TRUE)
        ELSE MergeResult(p.html, mergedDelta, <<>>, p.err, FALSE)

\* the locals of MergeAll before the first round
NotCalledYet == MergeResult(<<>>, NilDelta, <<>>, NoErr, FALSE)

\* the loop of MergeAll merging each delta with the delta before it in the
\* list instead of the delta merged so far
RECURSIVE MergeAllFromPairwise(_, _, _, _, _)
MergeAllFromPairwise(baseHTML, mergedDelta, ds, i, last) ==
    IF i >= Len(ds) THEN MergeResult(last.html, last.delta, <<>>, NoErr, FALSE)
    ELSE LET r == Merge(baseHTML, ds[i], ds[i + 1])
         IN  IF r.panic THEN MergeResult(<<>>, NilDelta, <<>>, NoErr, TRUE)
             ELSE IF r.err # NoErr
             THEN MergeResult(<<>>, NilDelta, <<>>, r.err, FALSE)
             ELSE IF Len(r.conflicts) > 0
             THEN MergeResult(<<>>, NilDelta, r.conflicts, NoErr, FALSE)
             ELSE MergeAllFromPairwise(baseHTML, r.delta, ds, i + 1, r)

\* the loop of MergeAll from delta number i (0-based), mergedDelta being
\* the delta merged so far and last the result of the previous round
RECURSIVE MergeAllFrom(_, _, _, _, _)
MergeAllFrom(baseHTML, mergedDelta, ds, i, last) ==
    IF i >= Len(ds) THEN MergeResult(last.html, last.delta, <<>>, NoErr, FALSE)
    ELSE LET r == Merge(baseHTML, mergedDelta, ds[i + 1])
         IN  IF r.panic THEN MergeResult(<<>>, NilDelta, <<>>, NoErr, TRUE)
             ELSE IF r.err # NoErr
             THEN MergeResult(<<>>, NilDelta, <<>>, r.err, FALSE)
             ELSE IF Len(r.conflicts) > 0
             THEN MergeResult(<<>>, NilDelta, r.conflicts, NoErr, FALSE)
             ELSE MergeAllFrom(baseHTML, r.delta, ds, i + 1, r)

MergeAll(baseHTML, ds) ==
    IF Len(ds) = 0
    THEN MergeResult(baseHTML, Delta(hashString(baseHTML), <<>>, 0, ""), <<>>,
                     NoErr, FALSE)
    ELSE IF Len(ds) = 1
    THEN LET p == Patch(baseHTML, ds[1])
         IN  MergeResult(p.html, ds[1], <<>>, p.err, FALSE)
    ELSE MergeAllFrom(baseHTML, ds[1], ds, 1, NotCalledYet)

----------------------------------------------------------------------------
(* dom.go: nodes as pointers.  A pointer names a tree and the place of the
   node in it; Parent, FirstChild and NextSibling are read off the place. *)

Ptr(t, at) == [tree |-> t, at |-> at]
NilPtr == [tree |-> "nil", at |-> <<>>]

\* n.Parent
Parent(n) == IF n.at = <<>> THEN NilPtr ELSE Ptr(n.tree, Front(n.at))

\* the node a pointer points to
Deref(trees, n) == GetNode(trees[n.tree], n.at)

\* getChildAtIndex, returning the pointer
getChildPtrAtIndex(trees, parent, index) ==
    IF index >= 0 /\ index < Len(Deref(trees, parent).Kids)
    THEN Ptr(parent.tree, Append(parent.at, index))
    ELSE NilPtr

\* GetNode, returning the pointer: [node, err]
RECURSIVE GetNodePtr(_, _, _)
GetNodePtr(trees, current, path) ==
    IF path = <<>> THEN [node |-> current, err |-> NoErr]
    ELSE LET child == getChildPtrAtIndex(trees, current, Head(path))
         IN  IF child = NilPtr
             THEN [node |-> NilPtr, err |-> Err("node not found at path")]
             ELSE GetNodePtr(trees, child, Tail(path))

getChildIndex(trees, parent, child) ==
    LET I == {i \in 0..(Len(Deref(trees, parent).Kids) - 1) :
                Ptr(parent.tree, Append(parent.at, i)) = child}
    IN  IF I = {} THEN -1 ELSE CHOOSE i \in I : \A j \in I : i <= j

\* the loop of GetPath with path built so far, appending the index
RECURSIVE GetPathAppending(_, _, _, _)
GetPathAppending(trees, root, current, path) ==
    IF current = root THEN [path |-> path, err |-> NoErr]
    ELSE LET parent == Parent(current)
         IN  IF parent = NilPtr
             THEN [path |-> <<>>, err |-> Err("target node is not a descendant of root")]
             ELSE GetPathAppending(trees, root, parent,
                                   Append(path, getChildIndex(trees, parent, current)))

\* the loop of GetPath from current upwards, path built so far: [path, err]
RECURSIVE GetPathFrom(_, _, _, _)
GetPathFrom(trees, root, current, path) ==
    IF current = root THEN [path |-> path, err |-> NoErr]
    ELSE LET parent == Parent(current)
             index == getChildIndex(trees, parent, current)
         IN  IF parent = NilPtr
             THEN [path |-> <<>>, err |-> Err("target node is not a descendant of root")]
             ELSE IF index = -1
             THEN [path |-> <<>>, err |-> Err("integrity error: child not found in parent's list")]
             ELSE GetPathFrom(trees, root, parent, <<index>> \o path)

GetPath(trees, root, target) == GetPathFrom(trees, root, target, <<>>)

----------------------------------------------------------------------------
(* The operation slices of Merge: append(opsA, opsBTransformed...) *)

\* the zero Operation, what an unused slot of a backing array holds
ZeroOp == Operation("", <<>>, "", <<>>, <<>>, <<>>, 0)

\* a slice is [arr, len]: the first len slots of backing array number arr;
\* its capacity is the length of that array
SliceOps(h, sl) == SubSeq(h[sl.arr], 1, sl.len)
Cap(h, sl) == Len(h[sl.arr])

\* capacity of the array append allocates when newLen does not fit in
\* oldCap: the needed length if that is more than double, else double
GrowCap(oldCap, newLen) == IF newLen > 2 * oldCap THEN newLen ELSE 2 * oldCap

\* append(sl, elems...): in place when the capacity suffices, writing the
\* slots after sl.len of the shared array; else into a new array
AppendSlice(h, sl, elems) ==
    LET newLen == sl.len + Len(elems)
    IN  IF newLen <= Cap(h, sl)
        THEN [heap |-> [h EXCEPT ![sl.arr] =
                          [k \in 1..Len(@) |->
                             IF k > sl.len /\ k <= newLen THEN elems[k - sl.len]
                             ELSE @[k]]],
              slice |-> [arr |-> sl.arr, len |-> newLen]]
        ELSE [heap |-> Append(h, SliceOps(h, sl) \o elems
                                 \o [k \in 1..(GrowCap(Cap(h, sl), newLen) - newLen)
                                        |-> ZeroOp]),
              slice |-> [arr |-> Len(h) + 1, len |-> newLen]]

----------------------------------------------------------------------------
(* Inputs *)

SeqsUpTo(S, n) == UNION {[1..k -> S] : k \in 0..n}

NoAdjacentText(kids) ==
    \A i \in 1..(Len(kids) - 1) : ~(kids[i].Type = TextNode /\ kids[i + 1].Type = TextNode)

IdX == <<Attribute("id", <<"x">>)>>
IdY == <<Attribute("id", <<"y">>)>>

\* nodes a document of the model is built from
Leaves ==
    {Text(<<"a">>), Text(<<"b">>),
     Elem(TagDiv, <<>>, <<>>), Elem(TagDiv, IdX, <<>>), Elem(TagDiv, IdY, <<>>),
     Elem(TagP, <<>>, <<>>)}

Nested ==
    {Elem(TagDiv, <<>>, <<Text(<<"a">>)>>), Elem(TagDiv, <<>>, <<Elem(TagP, <<>>, <<>>)>>)}

\* document texts: what is written inside <body>
Docs == {d \in SeqsUpTo(Leaves \cup Nested, MaxKids) : NoAdjacentText(d)}

Times == {1}
Orders == BOOLEAN \X BOOLEAN

NotCalledP == [html |-> <<>>, err |-> Err("not called")]
NotCalledM == MergeResult(<<>>, NilDelta, <<>>, Err("not called"), FALSE)

NotTransformed == [ops |-> <<>>, panic |-> FALSE]

NoPathing == [root |-> NilPtr, target |-> NilPtr, asked |-> <<>>, path |-> <<>>,
              node |-> NilPtr, err |-> Err("not called")]

StoreUnused ==
    /\ heap = <<>>
    /\ kept = <<>>
    /\ calls = 0
    /\ pathing = NoPathing
    /\ xform = NotTransformed

\* initial value of the state a driver does not use
ExtraUnused ==
    /\ newHTMLB = <<>>
    /\ given = <<>>
    /\ deltas = <<>>
    /\ mergedAll = NotCalledM

----------------------------------------------------------------------------
(* Diff followed by Patch (TestPatchRoundTrip) *)

InitDiffPatch ==
    /\ pc = "start"
    /\ oldHTML \in Docs
    /\ newHTML \in Docs
    /\ deltaA = NilDelta
    /\ deltaB = NilDelta
    /\ patched = NotCalledP
    /\ patchedB = NotCalledP
    /\ merged = NotCalledM
    /\ mergedBA = NotCalledM
    /\ conflAB = <<>>
    /\ conflBA = <<>>
    /\ ExtraUnused
    /\ StoreUnused

CallDiff ==
    /\ pc = "start"
    /\ \E now \in Times, ord \in Orders :
          deltaA' = Diff(oldHTML, newHTML, "tester", now, ord)
    /\ pc' = "diffed"
    /\ UNCHANGED <<oldHTML, newHTML, deltaB, patched, patchedB, merged, mergedBA,
                   conflAB, conflBA>>
    /\ UNCHANGED extra
    /\ UNCHANGED store

CallPatch ==
    /\ pc = "diffed"
    /\ patched' = Patch(oldHTML, deltaA)
    /\ pc' = "patched"
    /\ UNCHANGED <<oldHTML, newHTML, deltaA, deltaB, patchedB, merged, mergedBA,
                   conflAB, conflBA>>
    /\ UNCHANGED extra
    /\ UNCHANGED store

NextDiffPatch == CallDiff \/ CallPatch

SpecDiffPatch == InitDiffPatch /\ [][NextDiffPatch]_vars

----------------------------------------------------------------------------
(* detectConflicts on two operation lists, in both directions *)

PathBody  == <<0, 1>>
PathElem  == <<0, 1, 0>>       \* first child of <body>, an element
PathText  == <<0, 1, 0, 0>>    \* its child, a text node
PathOther == <<0, 1, 1>>       \* second child of <body>

ValX == <<"x">>
ValY == <<"y">>
TextAB == <<"a", "b">>

OpDel(path)              == Operation(OpDeleteNode, path, "", <<>>, <<>>, <<>>, 0)
OpIns(path, pos, data)   == Operation(OpInsertNode, path, "", <<>>, <<>>, data, pos)
OpAttr(path, k, v)       == Operation(OpUpdateAttr, path, k, <<>>, v, <<>>, 0)
OpText(path, oldv, newv) == Operation(OpUpdateText, path, "", oldv, newv, <<>>, 0)
OpInsT(path, pos, v)     == Operation(OpInsertText, path, "", <<>>, v, <<>>, pos)
OpDelT(path, pos, v)     == Operation(OpDeleteText, path, "", v, <<>>, <<>>, pos)

NodeX == <<Elem(TagP, IdX, <<>>)>>
NodeY == <<Elem(TagP, IdY, <<>>)>>

DetectOps ==
    {OpDel(PathElem), OpDel(PathText),
     OpAttr(PathElem, "id", ValX), OpAttr(PathElem, "id", ValY),
     OpAttr(PathElem, "class", ValX),
     OpText(PathText, TextAB, ValX), OpText(PathText, TextAB, ValY),
     OpInsT(PathText, 1, ValX), OpDelT(PathText, 0, <<"a">>),
     OpIns(PathElem, 0, NodeX), OpIns(PathBody, 0, NodeX)}

DetectBase == <<Elem(TagDiv, <<>>, <<Text(TextAB)>>), Elem(TagP, <<>>, <<>>)>>

InitDetect ==
    /\ pc = "start"
    /\ oldHTML = DetectBase
    /\ newHTML = <<>>
    /\ \E opsA \in SeqsUpTo(DetectOps, MaxOpsA), opsB \in SeqsUpTo(DetectOps, MaxOpsB) :
          /\ deltaA = Delta(hashString(oldHTML), opsA, 1, "A")
          /\ deltaB = Delta(hashString(oldHTML), opsB, 1, "B")
    /\ patched = NotCalledP
    /\ patchedB = NotCalledP
    /\ merged = NotCalledM
    /\ mergedBA = NotCalledM
    /\ conflAB = <<>>
    /\ conflBA = <<>>
    /\ ExtraUnused
    /\ StoreUnused

CallDetect ==
    /\ pc = "start"
    /\ conflAB' = detectConflicts(deltaA.Operations, deltaB.Operations)
    /\ pc' = "detected"
    /\ UNCHANGED <<oldHTML, newHTML, deltaA, deltaB, patched, patchedB, merged,
                   mergedBA, conflBA>>
    /\ UNCHANGED extra
    /\ UNCHANGED store

CallDetectSwapped ==
    /\ pc = "detected"
    /\ conflBA' = detectConflicts(deltaB.Operations, deltaA.Operations)
    /\ pc' = "done"
    /\ UNCHANGED <<oldHTML, newHTML, deltaA, deltaB, patched, patchedB, merged,
                   mergedBA, conflAB>>
    /\ UNCHANGED extra
    /\ UNCHANGED store

NextDetect == CallDetect \/ CallDetectSwapped

SpecDetect == InitDetect /\ [][NextDetect]_vars

----------------------------------------------------------------------------
(* Merge of two deltas on a common base, in both orders *)

MergeBase == <<Elem(TagDiv, <<>>, <<Text(TextAB)>>), Elem(TagP, <<>>, <<>>)>>

MergeOps ==
    {OpDel(PathElem), OpDel(PathOther),
     OpIns(PathBody, 0, NodeX), OpIns(PathBody, 0, NodeY),
     OpText(PathText, TextAB, ValX), OpText(PathText, TextAB, ValY),
     OpInsT(PathText, 1, ValX), OpDelT(PathText, 0, <<"a">>),
     OpAttr(PathElem, "id", ValX), OpAttr(PathOther, "id", ValY)}

InitMerge ==
    /\ pc = "start"
    /\ oldHTML = MergeBase
    /\ newHTML = <<>>
    /\ \E opsA \in SeqsUpTo(MergeOps, MaxOpsA), opsB \in SeqsUpTo(MergeOps, MaxOpsB) :
          /\ deltaA = Delta(hashString(oldHTML), opsA, 1, "A")
          /\ deltaB = Delta(hashString(oldHTML), opsB, 1, "B")
    /\ patched = NotCalledP
    /\ patchedB = NotCalledP
    /\ merged = NotCalledM
    /\ mergedBA = NotCalledM
    /\ conflAB = <<>>
    /\ conflBA = <<>>
    /\ ExtraUnused
    /\ StoreUnused

CallPatchA ==
    /\ pc = "start"
    /\ patched' = Patch(oldHTML, deltaA)
    /\ pc' = "patchedA"
    /\ UNCHANGED <<oldHTML, newHTML, deltaA, deltaB, patchedB, merged, mergedBA,
                   conflAB, conflBA>>
    /\ UNCHANGED extra
    /\ UNCHANGED store

CallPatchB ==
    /\ pc = "patchedA"
    /\ patchedB' = Patch(oldHTML, deltaB)
    /\ pc' = "patchedB"
    /\ UNCHANGED <<oldHTML, newHTML, deltaA, deltaB, patched, merged, mergedBA,
                   conflAB, conflBA>>
    /\ UNCHANGED extra
    /\ UNCHANGED store

CallMerge ==
    /\ pc = "patchedB"
    /\ merged' = Merge(oldHTML, deltaA, deltaB)
    /\ pc' = "merged"
    /\ UNCHANGED <<oldHTML, newHTML, deltaA, deltaB, patched, patchedB, mergedBA,
                   conflAB, conflBA>>
    /\ UNCHANGED extra
    /\ UNCHANGED store

CallMergeSwapped ==
    /\ pc = "merged"
    /\ mergedBA' = Merge(oldHTML, deltaB, deltaA)
    /\ pc' = "done"
    /\ UNCHANGED <<oldHTML, newHTML, deltaA, deltaB, patched, patchedB, merged,
                   conflAB, conflBA>>
    /\ UNCHANGED extra
    /\ UNCHANGED store

NextMerge == CallPatchA \/ CallPatchB \/ CallMerge \/ CallMergeSwapped

SpecMerge == InitMerge /\ [][NextMerge]_vars

----------------------------------------------------------------------------
(* Diff of two revisions of one text node, then Merge (TestMergeTextConflict,
   TestMergeTextConflictInterleaved) *)

BaseChars == <<"a", "b", "c", "d">>
BaseText == SubSeq(BaseChars, 1, MaxText)

InsertAt(t, pos, v) == Slice(t, 0, pos) \o v \o Slice(t, pos, Len(t))
DeleteAt(t, pos)    == Slice(t, 0, pos) \o Slice(t, pos + 1, Len(t))

\* the base text, the base text with "x" or "y" put in at some offset, and
\* the base text with one character taken out
Revisions(t) ==
    {t} \cup {InsertAt(t, pos, v) : pos \in 0..Len(t), v \in {ValX, ValY}}
        \cup {DeleteAt(t, pos) : pos \in 0..(Len(t) - 1)}

TextDoc(t) == <<Elem(TagP, <<>>, <<Text(t)>>)>>

InitTextMerge ==
    /\ pc = "start"
    /\ oldHTML = TextDoc(BaseText)
    /\ newHTML \in {TextDoc(t) : t \in Revisions(BaseText)}
    /\ newHTMLB \in {TextDoc(t) : t \in Revisions(BaseText)}
    /\ deltaA = NilDelta
    /\ deltaB = NilDelta
    /\ patched = NotCalledP
    /\ patchedB = NotCalledP
    /\ merged = NotCalledM
    /\ mergedBA = NotCalledM
    /\ conflAB = <<>>
    /\ conflBA = <<>>
    /\ given = <<>>
    /\ deltas = <<>>
    /\ mergedAll = NotCalledM
    /\ StoreUnused

CallDiffB ==
    /\ pc = "diffed"
    /\ \E now \in Times, ord \in Orders :
          deltaB' = Diff(oldHTML, newHTMLB, "B", now, ord)
    /\ pc' = "diffedB"
    /\ UNCHANGED <<oldHTML, newHTML, deltaA, patched, patchedB, merged, mergedBA,
                   conflAB, conflBA>>
    /\ UNCHANGED extra
    /\ UNCHANGED store

CallMergeDiffed ==
    /\ pc = "diffedB"
    /\ merged' = Merge(oldHTML, deltaA, deltaB)
    /\ pc' = "mergedDiffed"
    /\ UNCHANGED <<oldHTML, newHTML, deltaA, deltaB, patched, patchedB, mergedBA,
                   conflAB, conflBA>>
    /\ UNCHANGED extra
    /\ UNCHANGED store

NextTextMerge == CallDiff \/ CallDiffB \/ CallMergeDiffed

SpecTextMerge == InitTextMerge /\ [][NextTextMerge]_vars

----------------------------------------------------------------------------
(* Merge of two deltas that insert children under one parent (TestMerge) *)

Digits == <<"1", "2", "3", "4">>

\* the fragment operation number i of a party inserts: <p id="a1">, ...
NodeOf(party, i) == <<Elem(TagP, <<Attribute("id", <<party, Digits[i]>>)>>, <<>>)>>

\* positions an INSERT_NODE under <body> of the base may carry: every index
\* of the base children, the end, and one past the end
Positions == 0..(Len(MergeBase) + 1)

InsertsOf(party, positions) ==
    [i \in 1..Len(positions) |-> OpIns(PathBody, positions[i], NodeOf(party, i))]

InitSiblings ==
    /\ pc = "start"
    /\ oldHTML = MergeBase
    /\ newHTML = <<>>
    /\ \E posA \in SeqsUpTo(Positions, MaxInserts), posB \in SeqsUpTo(Positions, MaxInserts) :
          /\ deltaA = Delta(hashString(oldHTML), InsertsOf("a", posA), 1, "A")
          /\ deltaB = Delta(hashString(oldHTML), InsertsOf("b", posB), 1, "B")
    /\ patched = NotCalledP
    /\ patchedB = NotCalledP
    /\ merged = NotCalledM
    /\ mergedBA = NotCalledM
    /\ conflAB = <<>>
    /\ conflBA = <<>>
    /\ ExtraUnused
    /\ StoreUnused

SpecSiblings == InitSiblings /\ [][NextMerge]_vars

----------------------------------------------------------------------------
(* Merge and MergeAll of two deltas that update texts and attributes
   (TestMergeAll) *)

PathText2 == <<0, 1, 1, 0>>    \* the text below the second child of <body>

UpdateBase ==
    <<Elem(TagDiv, <<>>, <<Text(TextAB)>>), Elem(TagP, IdX, <<Text(TextAB)>>)>>

UpdateOps ==
    {OpText(PathText, TextAB, ValX), OpText(PathText, TextAB, ValY),
     OpText(PathText, ValX, ValY), OpText(PathText2, TextAB, ValX),
     OpAttr(PathElem, "id", ValX), OpAttr(PathElem, "class", ValY),
     OpAttr(PathOther, "id", ValY)}

InitUpdates ==
    /\ pc = "start"
    /\ oldHTML = UpdateBase
    /\ newHTML = <<>>
    /\ \E opsA \in SeqsUpTo(UpdateOps, MaxOpsA), opsB \in SeqsUpTo(UpdateOps, MaxOpsB) :
          /\ deltaA = Delta(hashString(oldHTML), opsA, 1, "A")
          /\ deltaB = Delta(hashString(oldHTML), opsB, 1, "B")
    /\ patched = NotCalledP
    /\ patchedB = NotCalledP
    /\ merged = NotCalledM
    /\ mergedBA = NotCalledM
    /\ conflAB = <<>>
    /\ conflBA = <<>>
    /\ ExtraUnused
    /\ StoreUnused

CallMergeAllAB ==
    /\ pc = "done"
    /\ deltas' = <<deltaA, deltaB>>
    /\ mergedAll' = MergeAll(oldHTML, <<deltaA, deltaB>>)
    /\ pc' = "all"
    /\ UNCHANGED <<oldHTML, newHTML, deltaA, deltaB, patched, patchedB, merged,
                   mergedBA, conflAB, conflBA, newHTMLB, given>>
    /\ UNCHANGED store

NextUpdates ==
    CallPatchA \/ CallPatchB \/ CallMerge \/ CallMergeSwapped \/ CallMergeAllAB

SpecUpdates == InitUpdates /\ [][NextUpdates]_vars

----------------------------------------------------------------------------
(* Merge and Patch of deltas whose base hash may not be that of the text
   handed in, and whose operations may conflict *)

\* the same content written out with <html>, <head> and <body>
WholeDoc(content) ==
    <<Elem(TagHtml, <<>>, <<Elem(TagHead, <<>>, <<>>), Elem(TagBody, <<>>, content)>>)>>

\* two texts that parse to the same tree
GateTexts == {MergeBase, WholeDoc(MergeBase)}

GateOps ==
    {OpText(PathText, TextAB, ValX), OpText(PathText, TextAB, ValY),
     OpAttr(PathElem, "id", ValX), OpDel(PathElem), OpDel(<<>>),
     OpIns(<<>>, 0, NodeX)}

InitGate ==
    /\ pc = "start"
    /\ oldHTML \in GateTexts
    /\ newHTML = <<>>
    /\ \E opsA \in SeqsUpTo(GateOps, MaxOpsA), opsB \in SeqsUpTo(GateOps, MaxOpsB),
          baseA \in GateTexts, baseB \in GateTexts :
          /\ deltaA = Delta(hashString(baseA), opsA, 1, "A")
          /\ deltaB = Delta(hashString(baseB), opsB, 1, "B")
    /\ patched = NotCalledP
    /\ patchedB = NotCalledP
    /\ merged = NotCalledM
    /\ mergedBA = NotCalledM
    /\ conflAB = <<>>
    /\ conflBA = <<>>
    /\ ExtraUnused
    /\ StoreUnused

SpecGate == InitGate /\ [][NextMerge]_vars

----------------------------------------------------------------------------
(* Diff, then Patch of the delta on a text that may not be the base *)

\* the shorter documents
GateDocs == {d \in Docs : Len(d) < MaxKids}

InitPatchGate ==
    /\ pc = "start"
    /\ oldHTML \in GateDocs
    /\ newHTML \in GateDocs
    /\ deltaA = NilDelta
    /\ deltaB = NilDelta
    /\ patched = NotCalledP
    /\ patchedB = NotCalledP
    /\ merged = NotCalledM
    /\ mergedBA = NotCalledM
    /\ conflAB = <<>>
    /\ conflBA = <<>>
    /\ ExtraUnused
    /\ StoreUnused

CallPatchGiven ==
    /\ pc = "diffed"
    /\ \E h \in {oldHTML, WholeDoc(oldHTML), newHTML, WholeDoc(newHTML)} :
          /\ given' = h
          /\ patched' = Patch(h, deltaA)
    /\ pc' = "patchedGiven"
    /\ UNCHANGED <<oldHTML, newHTML, deltaA, deltaB, patchedB, merged, mergedBA,
                   conflAB, conflBA, newHTMLB, deltas, mergedAll>>
    /\ UNCHANGED store

NextPatchGate == CallDiff \/ CallPatchGiven

SpecPatchGate == InitPatchGate /\ [][NextPatchGate]_vars

----------------------------------------------------------------------------
(* Patch of a delta some of whose operations cannot be applied
   (TestPatchTextOps) *)

PathNowhere == <<0, 1, 5>>     \* no node of the base is there

PatchOps ==
    {OpText(PathText, TextAB, ValX), OpText(PathText, ValX, ValY),
     OpText(PathElem, TextAB, ValX),
     OpInsT(PathText, 1, ValX), OpInsT(PathText, 3, ValX),
     OpDelT(PathText, 0, <<"a">>),
     OpAttr(PathElem, "id", ValX), OpAttr(PathNowhere, "id", ValX),
     OpDel(PathOther), OpIns(PathBody, 0, NodeX),
     Operation(OpMoveNode, PathElem, "", <<>>, <<>>, <<>>, 0),
     Operation("RENAME_NODE", PathElem, "", <<>>, ValX, <<>>, 0)}

InitPatch ==
    /\ pc = "start"
    /\ oldHTML = MergeBase
    /\ newHTML = <<>>
    /\ \E opsA \in SeqsUpTo(PatchOps, MaxOpsA) :
          deltaA = Delta(hashString(oldHTML), opsA, 1, "A")
    /\ deltaB = NilDelta
    /\ patched = NotCalledP
    /\ patchedB = NotCalledP
    /\ merged = NotCalledM
    /\ mergedBA = NotCalledM
    /\ conflAB = <<>>
    /\ conflBA = <<>>
    /\ ExtraUnused
    /\ StoreUnused

NextPatch == CallPatchA

SpecPatch == InitPatch /\ [][NextPatch]_vars

----------------------------------------------------------------------------
(* Patch of text operations with offsets and old values that fit the text
   or not (TestPatchTextOps) *)

\* offsets before, in and behind the text ab
TextOffsets == (-1)..(Len(TextAB) + 1)

PatchTextOps ==
    {OpText(PathText, oldv, newv) : oldv \in {TextAB, ValX}, newv \in {ValX, TextAB}}
    \cup {OpText(PathElem, TextAB, ValX), OpText(PathNowhere, TextAB, ValX)}
    \cup {OpInsT(PathText, pos, ValX) : pos \in TextOffsets}
    \cup {OpInsT(PathElem, 0, ValX), OpInsT(PathNowhere, 0, ValX)}
    \cup {OpDelT(PathText, pos, v) :
             pos \in TextOffsets, v \in {<<>>, <<"a">>, <<"b">>, TextAB}}
    \cup {OpDelT(PathElem, 0, <<"a">>), OpDelT(PathNowhere, 0, <<"a">>)}

InitPatchText ==
    /\ pc = "start"
    /\ oldHTML = MergeBase
    /\ newHTML = <<>>
    /\ \E opsA \in SeqsUpTo(PatchTextOps, MaxOpsA) :
          deltaA = Delta(hashString(oldHTML), opsA, 1, "A")
    /\ deltaB = NilDelta
    /\ patched = NotCalledP
    /\ patchedB = NotCalledP
    /\ merged = NotCalledM
    /\ mergedBA = NotCalledM
    /\ conflAB = <<>>
    /\ conflBA = <<>>
    /\ ExtraUnused
    /\ StoreUnused

SpecPatchText == InitPatchText /\ [][NextPatch]_vars

----------------------------------------------------------------------------
(* Patch of node and attribute operations at positions, paths and keys
   that are there or not *)

\* <div class="x" id="x">ab</div><p></p>
NodeBase ==
    <<Elem(TagDiv, <<Attribute("class", ValX), Attribute("id", ValX)>>,
           <<Text(TextAB)>>),
      Elem(TagP, <<>>, <<>>)>>

\* positions before, among and behind the children of the body
NodePositions == (-1)..(Len(NodeBase) + 1)

OpAttrFrom(path, k, oldv, v) == Operation(OpUpdateAttr, path, k, oldv, v, <<>>, 0)

PatchNodeOps ==
    {OpIns(PathBody, pos, data) :
        pos \in NodePositions, data \in {NodeX, <<Text(ValX)>>, <<>>}}
    \cup {OpIns(PathBody, 0, NodeX \o NodeY)}
    \cup {OpIns(PathElem, pos, NodeX) : pos \in 0..1}
    \cup {OpIns(<<>>, 0, NodeX), OpIns(PathText, 0, NodeX), OpIns(PathNowhere, 0, NodeX)}
    \cup {OpDel(path) :
             path \in {PathElem, PathOther, PathText, PathBody, <<0>>, <<>>, PathNowhere}}
    \cup {OpAttrFrom(PathElem, k, oldv, ValY) :
             k \in {"class", "id", "title"}, oldv \in {<<>>, ValY}}
    \cup {OpAttrFrom(PathOther, "id", <<>>, ValY), OpAttrFrom(PathText, "id", <<>>, ValY),
          OpAttrFrom(PathNowhere, "id", <<>>, ValY)}

InitPatchNodes ==
    /\ pc = "start"
    /\ oldHTML = NodeBase
    /\ newHTML = <<>>
    /\ \E opsA \in SeqsUpTo(PatchNodeOps, MaxOpsA) :
          deltaA = Delta(hashString(oldHTML), opsA, 1, "A")
    /\ deltaB = NilDelta
    /\ patched = NotCalledP
    /\ patchedB = NotCalledP
    /\ merged = NotCalledM
    /\ mergedBA = NotCalledM
    /\ conflAB = <<>>
    /\ conflBA = <<>>
    /\ ExtraUnused
    /\ StoreUnused

SpecPatchNodes == InitPatchNodes /\ [][NextPatch]_vars

----------------------------------------------------------------------------
(* MergeAll of a list of deltas *)

DeltaOf(ops) == Delta(hashString(MergeBase), ops, 1, "U")

\* deltas of one or no operation on the base, and one made for another text
FoldDeltas ==
    {DeltaOf(<<>>),
     DeltaOf(<<OpText(PathText, TextAB, ValX)>>),
     DeltaOf(<<OpText(PathText, TextAB, ValY)>>),
     DeltaOf(<<OpAttr(PathElem, "id", ValX)>>),
     DeltaOf(<<OpIns(PathBody, 0, NodeX)>>),
     DeltaOf(<<OpDel(PathOther)>>),
     Delta(hashString(WholeDoc(MergeBase)), <<OpAttr(PathElem, "id", ValY)>>, 1, "U")}

InitMergeAll ==
    /\ pc = "start"
    /\ oldHTML = MergeBase
    /\ newHTML = <<>>
    /\ deltaA = NilDelta
    /\ deltaB = NilDelta
    /\ patched = NotCalledP
    /\ patchedB = NotCalledP
    /\ merged = NotCalledM
    /\ mergedBA = NotCalledM
    /\ conflAB = <<>>
    /\ conflBA = <<>>
    /\ newHTMLB = <<>>
    /\ given = <<>>
    /\ deltas \in SeqsUpTo(FoldDeltas, MaxDeltas)
    /\ mergedAll = NotCalledM
    /\ StoreUnused

CallMergeAll ==
    /\ pc = "start"
    /\ mergedAll' = MergeAll(oldHTML, deltas)
    /\ pc' = "all"
    /\ UNCHANGED <<oldHTML, newHTML, deltaA, deltaB, patched, patchedB, merged,
                   mergedBA, conflAB, conflBA, newHTMLB, given, deltas>>
    /\ UNCHANGED store

NextMergeAll == CallMergeAll

SpecMergeAll == InitMergeAll /\ [][NextMergeAll]_vars

----------------------------------------------------------------------------
(* A caller that keeps every delta Merge returns and merges kept deltas
   again *)

KeepOps ==
    {OpAttr(PathElem, "id", ValX), OpAttr(PathOther, "id", ValY)}

\* a delta built by the caller from a literal: its array is exactly full
Literal(ops, n) == [arr |-> n, len |-> Len(ops), created |-> ops]

\* some enumeration of a finite set
RECURSIVE SetToSeq(_)
SetToSeq(S) ==
    IF S = {} THEN <<>>
    ELSE LET x == CHOOSE x \in S : TRUE IN <<x>> \o SetToSeq(S \ {x})

\* the deltas the caller starts with: one of up to MaxOpsA operations and
\* one for each single operation
InitKeep ==
    /\ pc = "start"
    /\ oldHTML = MergeBase
    /\ newHTML = <<>>
    /\ deltaA = NilDelta
    /\ deltaB = NilDelta
    /\ patched = NotCalledP
    /\ patchedB = NotCalledP
    /\ merged = NotCalledM
    /\ mergedBA = NotCalledM
    /\ conflAB = <<>>
    /\ conflBA = <<>>
    /\ ExtraUnused
    /\ \E opsA \in SeqsUpTo(KeepOps, MaxOpsA) :
          LET singles == SetToSeq(KeepOps)
              lists == <<opsA>> \o [k \in 1..Len(singles) |-> <<singles[k]>>]
          IN  /\ heap = lists
              /\ kept = [k \in 1..Len(lists) |-> Literal(lists[k], k)]
    /\ calls = 0
    /\ pathing = NoPathing
    /\ xform = NotTransformed

\* Merge(base, kept[i], kept[j]); the caller keeps the delta it returns
CallMergeKept ==
    /\ calls < MaxCalls
    /\ \E i \in 1..Len(kept), j \in 2..(Cardinality(KeepOps) + 1) :
          LET dA == Delta(hashString(oldHTML), SliceOps(heap, kept[i]), 1, "A")
              dB == Delta(hashString(oldHTML), SliceOps(heap, kept[j]), 1, "B")
              r  == Merge(oldHTML, dA, dB)
              opsBTransformed ==
                  SubSeq(r.delta.Operations, kept[i].len + 1, Len(r.delta.Operations))
              ap == AppendSlice(heap, kept[i], opsBTransformed)
          IN  /\ deltaA' = dA
              /\ deltaB' = dB
              /\ merged' = r
              /\ IF r.delta = NilDelta
                 THEN UNCHANGED <<heap, kept>>
                 ELSE /\ heap' = ap.heap
                      /\ kept' = Append(kept, [arr |-> ap.slice.arr,
                                               len |-> ap.slice.len,
                                               created |-> r.delta.Operations])
    /\ calls' = calls + 1
    /\ pc' = "kept"
    /\ UNCHANGED <<oldHTML, newHTML, patched, patchedB, mergedBA, conflAB, conflBA,
                   pathing, xform>>
    /\ UNCHANGED extra

NextKeep == CallMergeKept

SpecKeep == InitKeep /\ [][NextKeep]_vars

----------------------------------------------------------------------------
(* GetNode and GetPath on the nodes of a parsed document (TestPathing) *)

\* the parsed document and a tree that is not part of it
Trees == [doc |-> ParseHTML(oldHTML), other |-> ParseHTML(newHTML)]

\* the places of all nodes of a tree
RECURSIVE Places(_, _)
Places(n, at) ==
    {at} \cup UNION {Places(n.Kids[i], Append(at, i - 1)) : i \in 1..Len(n.Kids)}

Ptrs(t) == {Ptr(t, at) : at \in Places(Trees[t], <<>>)}

PathIndexes == {-1, 0, 1, 2}
Paths == SeqsUpTo(PathIndexes, MaxPath)

InitPathing ==
    /\ pc = "start"
    /\ oldHTML \in GateDocs
    /\ newHTML = <<Elem(TagP, <<>>, <<>>)>>
    /\ deltaA = NilDelta
    /\ deltaB = NilDelta
    /\ patched = NotCalledP
    /\ patchedB = NotCalledP
    /\ merged = NotCalledM
    /\ mergedBA = NotCalledM
    /\ conflAB = <<>>
    /\ conflBA = <<>>
    /\ ExtraUnused
    /\ StoreUnused

UnchangedButPathing ==
    /\ UNCHANGED <<oldHTML, newHTML, deltaA, deltaB, patched, patchedB, merged,
                   mergedBA, conflAB, conflBA, heap, kept, calls, xform>>
    /\ UNCHANGED extra

\* node, err := GetNode(root, path)
CallGetNode ==
    /\ pc = "start"
    /\ \E root \in Ptrs("doc"), path \in Paths :
          LET r == GetNodePtr(Trees, root, path)
          IN  pathing' = [root |-> root, target |-> NilPtr, asked |-> path,
                          path |-> path, node |-> r.node, err |-> r.err]
    /\ pc' = "gotNode"
    /\ UnchangedButPathing

\* path, err := GetPath(root, node) on the node GetNode returned
CallGetPathOfNode ==
    /\ pc = "gotNode"
    /\ pathing.err = NoErr
    /\ LET r == GetPath(Trees, pathing.root, pathing.node)
       IN  pathing' = [pathing EXCEPT !.target = pathing.node, !.path = r.path,
                                      !.err = r.err]
    /\ pc' = "gotNodePath"
    /\ UnchangedButPathing

\* path, err := GetPath(root, target)
CallGetPath ==
    /\ pc = "start"
    /\ \E root \in Ptrs("doc"), target \in Ptrs("doc") \cup Ptrs("other") :
          LET r == GetPath(Trees, root, target)
          IN  pathing' = [root |-> root, target |-> target, asked |-> <<>>,
                          path |-> r.path, node |-> NilPtr, err |-> r.err]
    /\ pc' = "gotPath"
    /\ UnchangedButPathing

\* node, err := GetNode(root, path) on the path GetPath returned
CallGetNodeOfPath ==
    /\ pc = "gotPath"
    /\ pathing.err = NoErr
    /\ LET r == GetNodePtr(Trees, pathing.root, pathing.path)
       IN  pathing' = [pathing EXCEPT !.node = r.node, !.err = r.err]
    /\ pc' = "gotPathNode"
    /\ UnchangedButPathing

NextPathing == CallGetNode \/ CallGetPathOfNode \/ CallGetPath \/ CallGetNodeOfPath

SpecPathing == InitPathing /\ [][NextPathing]_vars

----------------------------------------------------------------------------
(* transformOp(b, a) on one operation of each party, then Patch of a
   followed by the transformed b *)

\* text operations on the text node of <p>text</p>: inserts at every offset
\* and one before and past the text, deletes of every slice of the text, and
\* a delete whose old value is not in the text
WideText == <<"x", "y">>

TextInserts ==
    {OpInsT(PathText, pos, v) : pos \in (-1)..(Len(BaseText) + 1), v \in {ValX, WideText}}

TextDeletes ==
    UNION {{OpDelT(PathText, pos, Slice(BaseText, pos, pos + n)) :
               n \in 0..(Len(BaseText) - pos)} : pos \in 0..Len(BaseText)}
    \cup {OpDelT(PathText, 0, ValX)}

TextOps == TextInserts \cup TextDeletes

\* operations of party A that insert or delete a node of the base
\* <div>ab</div><p></p>, and operations of party B on the base
NodeOpsA ==
    {OpIns(PathBody, pos, data) : pos \in (-1)..(Len(MergeBase) + 1), data \in {NodeX, <<>>}}
    \cup {OpIns(PathElem, pos, NodeX) : pos \in 0..1}
    \cup {OpDel(PathElem), OpDel(PathOther), OpDel(PathText)}

NodeOpsB ==
    {OpAttr(PathElem, "id", ValY), OpAttr(PathOther, "id", ValY),
     OpText(PathText, TextAB, ValY), OpInsT(PathText, 1, ValY),
     OpDel(PathElem), OpDel(PathOther)}
    \cup {OpIns(PathBody, pos, NodeY) : pos \in 0..(Len(MergeBase) + 1)}
    \cup {OpIns(PathElem, pos, NodeY) : pos \in 0..1}

InitTransform(base, A, B) ==
    /\ pc = "start"
    /\ oldHTML = base
    /\ newHTML = <<>>
    /\ \E a \in A : deltaA = Delta(hashString(base), <<a>>, 1, "A")
    /\ \E b \in B : deltaB = Delta(hashString(base), <<b>>, 1, "B")
    /\ patched = NotCalledP
    /\ patchedB = NotCalledP
    /\ merged = NotCalledM
    /\ mergedBA = NotCalledM
    /\ conflAB = <<>>
    /\ conflBA = <<>>
    /\ ExtraUnused
    /\ StoreUnused

InitTransformText == InitTransform(TextDoc(BaseText), TextOps, TextOps)

InitTransformNode == InitTransform(MergeBase, NodeOpsA, NodeOpsB)

\* transformed, err := transformOp(curr, opA)
CallTransformOp ==
    /\ pc = "start"
    /\ xform' = transformOp(deltaB.Operations[1], deltaA.Operations[1])
    /\ pc' = "transformed"
    /\ UNCHANGED <<oldHTML, newHTML, deltaA, deltaB, patched, patchedB, merged,
                   mergedBA, conflAB, conflBA, heap, kept, calls, pathing>>
    /\ UNCHANGED extra

\* Patch of the operation of A followed by the transformed operation of B
CallPatchTransformed ==
    /\ pc = "transformed"
    /\ ~xform.panic
    /\ patched' = Patch(oldHTML, [deltaA EXCEPT !.Operations = @ \o xform.ops])
    /\ pc' = "applied"
    /\ UNCHANGED <<oldHTML, newHTML, deltaA, deltaB, patchedB, merged,
                   mergedBA, conflAB, conflBA>>
    /\ UNCHANGED extra
    /\ UNCHANGED store

NextTransform == CallTransformOp \/ CallPatchTransformed

SpecTransformText == InitTransformText /\ [][NextTransform]_vars

SpecTransformNode == InitTransformNode /\ [][NextTransform]_vars

----------------------------------------------------------------------------
(* Diff of documents with several children under one parent, then Patch *)

KidLeaves ==
    {Text(<<"a">>), Elem(TagDiv, <<>>, <<>>), Elem(TagDiv, <<>>, <<Text(<<"a">>)>>)}

KidDocs == {d \in SeqsUpTo(KidLeaves, MaxKids) : NoAdjacentText(d)}

InitDiffKids ==
    /\ pc = "start"
    /\ oldHTML \in KidDocs
    /\ newHTML \in KidDocs
    /\ deltaA = NilDelta
    /\ deltaB = NilDelta
    /\ patched = NotCalledP
    /\ patchedB = NotCalledP
    /\ merged = NotCalledM
    /\ mergedBA = NotCalledM
    /\ conflAB = <<>>
    /\ conflBA = <<>>
    /\ ExtraUnused
    /\ StoreUnused

SpecDiffKids == InitDiffKids /\ [][NextDiffPatch]_vars

----------------------------------------------------------------------------
(* Diff of one element whose attributes change, then Patch *)

AttrVals == {ValX, ValY}

\* attribute lists that name a key once
AttrLists ==
    {a \in SeqsUpTo({Attribute(k, v) : k \in {"class", "id"}, v \in AttrVals}, 2) :
        \A i, j \in 1..Len(a) : a[i].Key = a[j].Key => i = j}

AttrDocs == {<<Elem(TagDiv, a, <<>>)>> : a \in AttrLists} \cup {<<Text(<<"a">>)>>}

InitDiffAttrs ==
    /\ pc = "start"
    /\ oldHTML \in AttrDocs
    /\ newHTML \in AttrDocs
    /\ deltaA = NilDelta
    /\ deltaB = NilDelta
    /\ patched = NotCalledP
    /\ patchedB = NotCalledP
    /\ merged = NotCalledM
    /\ mergedBA = NotCalledM
    /\ conflAB = <<>>
    /\ conflBA = <<>>
    /\ ExtraUnused
    /\ StoreUnused

SpecDiffAttrs == InitDiffAttrs /\ [][NextDiffPatch]_vars

----------------------------------------------------------------------------
(* Properties of Diff followed by Patch *)

\* C1: round trip - for every pair of documents, Patch(h1, Diff(h1, h2))
\* returns without error and its result parses to the same tree as h2.
RoundTrip ==
    pc = "patched" =>
        /\ patched.err = NoErr
        /\ ParseHTML(patched.html) = ParseHTML(newHTML)

\* length of the longest common prefix of two strings
CommonPrefixLen(a, b) ==
    LET m == IF Len(a) < Len(b) THEN Len(a) ELSE Len(b)
        K == {k \in 0..m : SubSeq(a, 1, k) = SubSeq(b, 1, k)}
    IN  CHOOSE k \in K : \A j \in K : j <= k

\* length of the longest common suffix of what follows the first p characters
CommonSuffixLen(a, b, p) ==
    LET m == (IF Len(a) < Len(b) THEN Len(a) ELSE Len(b)) - p
        K == {k \in 0..m : SubSeq(a, Len(a) - k + 1, Len(a))
                              = SubSeq(b, Len(b) - k + 1, Len(b))}
    IN  CHOOSE k \in K : \A j \in K : j <= k

\* paths of the text nodes below n, n being at path
RECURSIVE TextPaths(_, _)
TextPaths(n, path) ==
    IF n.Type = TextNode THEN {path}
    ELSE UNION {TextPaths(n.Kids[i], Append(path, i - 1)) : i \in 1..Len(n.Kids)}

\* what an operation says about a text: kind, offset and the two payloads
TextEdit(op) == <<op.Type, op.Position, op.OldValue, op.NewValue>>

\* the text operations the granular diff of old and new consists of
GranularEdits(old, new) ==
    LET p == CommonPrefixLen(old, new)
        s == CommonSuffixLen(old, new, p)
        gone == Slice(old, p, Len(old) - s)
        come == Slice(new, p, Len(new) - s)
    IN  (IF gone # <<>> THEN <<<<OpDeleteText, p, gone, <<>>>>>> ELSE <<>>)
        \o (IF come # <<>> THEN <<<<OpInsertText, p, <<>>, come>>>> ELSE <<>>)

\* the operations of a list that address path, in order
OpsAtPath(ops, path) == SelectSeq(ops, LAMBDA op : op.Path = path)

\* C11: granular text diff - for every pair of text nodes at the same path
\* of the old and the new tree with different payloads, the operations Diff
\* emits at that path are DELETE_TEXT of the differing middle of the old
\* payload (when non-empty) followed by INSERT_TEXT of the differing middle
\* of the new payload (when non-empty), both at the length of the common
\* prefix, and nothing else (no UPDATE_TEXT).
GranularTextDiff ==
    pc \in {"diffed", "patched"} =>
        LET oldDoc == ParseHTML(oldHTML)
            newDoc == ParseHTML(newHTML)
        IN  \A path \in TextPaths(oldDoc, <<>>) \cap TextPaths(newDoc, <<>>) :
                LET o == GetNode(oldDoc, path).Data
                    n == GetNode(newDoc, path).Data
                    at == OpsAtPath(deltaA.Operations, path)
                IN  o # n => [k \in 1..Len(at) |-> TextEdit(at[k])] = GranularEdits(o, n)

\* the kind of node the operation needs at its path
PathFits(root, op) ==
    LET n == GetNode(root, op.Path)
    IN  /\ n # Nil
        /\ op.Type \in {OpUpdateText, OpInsertText, OpDeleteText} => n.Type = TextNode
        /\ op.Type = OpUpdateAttr => n.Type = ElementNode
        /\ op.Type = OpDeleteNode => op.Path # <<>>
        /\ op.Type = OpInsertNode => n.Type \in {ElementNode, DocumentNode}

\* C22: every operation Diff returns has a path that resolves in the base
\* tree to a node of the kind the operation requires (Text for text
\* operations, Element for UPDATE_ATTR, an existing non-root node for
\* DELETE_NODE, an Element or Document parent for INSERT_NODE), also when the
\* new tree has a node of another kind or tag at the same index.
DiffPathsValid ==
    pc = "diffed" =>
        \A i \in 1..Len(deltaA.Operations) :
            PathFits(ParseHTML(oldHTML), deltaA.Operations[i])

\* C23: no-op diff - Diff(h, h, author) returns a delta with zero operations.
NoOpDiff ==
    pc = "diffed" /\ oldHTML = newHTML => deltaA.Operations = <<>>

\* a document with an attribute, a text and a nested element was diffed
\* against itself
NoOpDiffWitness ==
    /\ pc = "diffed"
    /\ oldHTML = newHTML
    /\ \E i \in 1..Len(oldHTML) : oldHTML[i].Attr # <<>> \/ oldHTML[i].Kids # <<>>
    /\ deltaA.Operations = <<>>
    /\ deltaA.BaseHash = hashString(oldHTML)

\* the place root.at ++ path exists in the tree of root and no index of
\* path is negative
Resolves(root, path) ==
    /\ \A k \in 1..Len(path) : path[k] >= 0
    /\ Ptr(root.tree, root.at \o path) \in Ptrs(root.tree)

\* target is root or below it
Under(root, target) ==
    /\ target.tree = root.tree
    /\ Len(target.at) >= Len(root.at)
    /\ SubSeq(target.at, 1, Len(root.at)) = root.at

\* C24: the path primitives are inverse - GetPath(root, n) of a node under
\* root returns a path that GetNode resolves to n, and GetPath of the node
\* GetNode(root, p) found returns p (the empty path for the root itself);
\* GetNode fails exactly when some index is negative or not smaller than the
\* child count of the node reached so far, GetPath exactly when the target
\* is not root or a descendant of root.
PathsInverse ==
    /\ pc = "gotNode" =>
          /\ pathing.err = NoErr <=> Resolves(pathing.root, pathing.asked)
          /\ pathing.err = NoErr =>
                pathing.node = Ptr(pathing.root.tree, pathing.root.at \o pathing.asked)
    /\ pc = "gotNodePath" => pathing.err = NoErr /\ pathing.path = pathing.asked
    /\ pc = "gotPath" =>
          /\ pathing.err = NoErr <=> Under(pathing.root, pathing.target)
          /\ pathing.root = pathing.target /\ pathing.err = NoErr => pathing.path = <<>>
    /\ pc = "gotPathNode" => pathing.err = NoErr /\ pathing.node = pathing.target

\* a path of two different indexes was resolved from a root that is not the
\* document and GetPath gave the path back
PathsInverseWitness ==
    /\ pc = "gotNodePath"
    /\ pathing.root.at # <<>>
    /\ Len(pathing.asked) = 2
    /\ pathing.asked[1] # pathing.asked[2]
    /\ pathing.path = pathing.asked

\* C17: base-hash gate of Patch - Patch of a text whose hash differs from
\* the base hash of the delta returns an error and no output and applies no
\* operation, also when the text parses to the same tree as the base; and
\* Patch(old, Diff(old, new)) never fails this gate.
PatchHashGate ==
    pc = "patchedGiven" =>
        /\ hashString(given) # deltaA.BaseHash =>
              /\ patched.html = <<>>
              /\ patched.err = Err("base hash mismatch")
        /\ given = oldHTML => patched.err.msg # "base hash mismatch"

\* C17 witness: Patch has refused a text that differs from the base of a
\* non-empty delta but parses to the same tree
PatchHashGateWitness ==
    /\ pc = "patchedGiven"
    /\ given # oldHTML
    /\ ParseHTML(given) = ParseHTML(oldHTML)
    /\ deltaA.Operations # <<>>
    /\ patched.err = Err("base hash mismatch")

\* the tree after the first k operations of ops, applied one after the
\* other to the base
RECURSIVE TreeAfter(_, _)
TreeAfter(ops, k) ==
    IF k = 0 THEN ParseHTML(oldHTML)
    ELSE applyOp(TreeAfter(ops, k - 1), ops[k]).root

\* operation number i (0-based) of ops cannot be applied where it stands
FailsAt(ops, i) == applyOp(TreeAfter(ops, i), ops[i + 1]).err # ""

\* C19: Patch is all-or-nothing - when operation number i is the first of
\* the delta that cannot be applied, Patch returns an empty result and an
\* error naming index i and the kind of that operation; when every
\* operation can be applied it returns the document after all of them.
PatchAllOrNothing ==
    pc = "patchedA" =>
        LET ops == deltaA.Operations
            Bad == {i \in 0..(Len(ops) - 1) : FailsAt(ops, i)}
        IN  IF Bad # {}
            THEN LET i == CHOOSE i \in Bad : \A j \in Bad : i <= j
                 IN  /\ patched.html = <<>>
                     /\ patched.err.msg # ""
                     /\ patched.err.op = i
                     /\ patched.err.type = ops[i + 1].Type
            ELSE /\ patched.err = NoErr
                 /\ patched.html = RenderNode(TreeAfter(ops, Len(ops)))

\* C19 witness: Patch has failed at its second operation, after a first one
\* that changed the document
PatchAllOrNothingWitness ==
    /\ pc = "patchedA"
    /\ Len(deltaA.Operations) >= 2
    /\ TreeAfter(deltaA.Operations, 1) # ParseHTML(oldHTML)
    /\ patched.err.op = 1
    /\ patched.html = <<>>

\* C25: Patch rejects MOVE_NODE and every operation of a kind other than
\* INSERT_NODE, DELETE_NODE, UPDATE_ATTR, UPDATE_TEXT, INSERT_TEXT and
\* DELETE_TEXT - a delta holding such an operation yields an error and no
\* output, and when the operations before it apply, the error names the
\* index and the kind of that operation.
PatchRejectsUnknownKinds ==
    pc = "patchedA" =>
        LET ops == deltaA.Operations
        IN  \A i \in 0..(Len(ops) - 1) :
                ops[i + 1].Type \notin AppliedKinds =>
                    /\ patched.html = <<>>
                    /\ patched.err # NoErr
                    /\ (\A j \in 0..(i - 1) : ~FailsAt(ops, j)) =>
                          /\ patched.err.op = i
                          /\ patched.err.type = ops[i + 1].Type
                          /\ patched.err.msg = "unknown operation type"

\* Patch has refused a MOVE_NODE that came after an operation it applied
PatchRejectsUnknownKindsWitness ==
    /\ pc = "patchedA"
    /\ Len(deltaA.Operations) = 2
    /\ deltaA.Operations[1].Type = OpUpdateAttr
    /\ deltaA.Operations[2].Type = OpMoveNode
    /\ patched.err.op = 1
    /\ patched.err.type = OpMoveNode
    /\ patched.html = <<>>

\* p is q or a prefix of q
PrefixOf(p, q) == Len(q) >= Len(p) /\ SubSeq(q, 1, Len(p)) = p

\* the places of a tree: the path of every node
RECURSIVE PathsOf(_, _)
PathsOf(n, at) ==
    {at} \cup UNION {PathsOf(n.Kids[i], Append(at, i - 1)) : i \in 1..Len(n.Kids)}

\* the parents Diff visits: the paths that lead to a node in the old and in
\* the new tree
AlignedParents ==
    PathsOf(ParseHTML(oldHTML), <<>>) \cap PathsOf(ParseHTML(newHTML), <<>>)

\* numbers of the operations of ops that satisfy Test
Where(ops, Test(_)) == {k \in 1..Len(ops) : Test(ops[k])}

\* the operations with numbers in K, in the order of the list
Picked(ops, K) == LET in(k) == k \in K IN
    [j \in 1..Cardinality(K) |->
        ops[CHOOSE k \in K : Cardinality({l \in K : l < k}) = j - 1]]

\* every number of K is before every number of L
Before(K, L) == \A k \in K, l \in L : k < l

\* C32: child alignment by index - at a parent p with n_old old and n_new
\* new children and m the smaller count, Diff emits first the operations of
\* the pairs (old[i], new[i]), i < m ascending, then the DELETE_NODE of
\* p++[i] for i from n_old - 1 down to m, then the INSERT_NODE at p of
\* positions m to n_new - 1 ascending, each with the rendering of the new
\* child; and each delete resolves when Patch reaches it.
ChildAlignment ==
    pc \in {"diffed", "patched"} =>
        LET ops == deltaA.Operations
        IN  /\ \A p \in AlignedParents :
                  LET old == GetNode(ParseHTML(oldHTML), p)
                      new == GetNode(ParseHTML(newHTML), p)
                      nOld == Len(old.Kids)
                      nNew == Len(new.Kids)
                      m == IF nOld < nNew THEN nOld ELSE nNew
                      isDel(op) == op.Type = OpDeleteNode /\ Len(op.Path) = Len(p) + 1
                                      /\ Front(op.Path) = p
                      isIns(op) == op.Type = OpInsertNode /\ op.Path = p
                      Pair(i) == LET below(op) == ~isDel(op) /\ PrefixOf(Append(p, i), op.Path)
                                 IN  Where(ops, below)
                      D == Where(ops, isDel)
                      I == Where(ops, isIns)
                  IN  /\ Picked(ops, D) =
                            [j \in 1..(nOld - m) |-> OpDel(Append(p, nOld - j))]
                      /\ Picked(ops, I) =
                            [j \in 1..(nNew - m) |->
                                OpIns(p, m + j - 1, RenderNode(new.Kids[m + j]))]
                      /\ \A i \in m..(nOld + nNew) : Pair(i) = {}
                      /\ \A i, j \in 0..(m - 1) : i < j => Before(Pair(i), Pair(j))
                      /\ \A i \in 0..(m - 1) : Before(Pair(i), D) /\ Before(Pair(i), I)
                      /\ Before(D, I)
            /\ \A k \in 1..Len(ops) :
                  ops[k].Type = OpDeleteNode /\ (\A j \in 0..(k - 2) : ~FailsAt(ops, j)) =>
                      GetNode(TreeAfter(ops, k - 1), ops[k].Path) # Nil

\* the body lost both its children: Diff deleted the second before the first
\* and Patch applied both deletes
ChildAlignmentWitness ==
    /\ pc = "patched"
    /\ patched.err = NoErr
    /\ Len(ParseHTML(newHTML).Kids[1].Kids[2].Kids) = 0
    /\ deltaA.Operations = <<OpDel(Append(PathBody, 1)), OpDel(Append(PathBody, 0))>>

\* the node has an attribute named k
HasKey(n, k) == \E i \in 1..Len(n.Attr) : n.Attr[i].Key = k

\* the node has the attribute k with value v
HasAttr(n, k, v) == \E i \in 1..Len(n.Attr) : n.Attr[i] = Attribute(k, v)

\* C33: attribute diff - for aligned nodes whose old side is an Element,
\* Diff emits exactly one UPDATE_ATTR with old_value and new_value for a key
\* on both sides with different values, exactly one UPDATE_ATTR with the
\* new_value only for a key the new side alone has, and no operation for a
\* key the old side alone has or whose values are equal.
AttrDiff ==
    pc \in {"diffed", "patched"} =>
        LET ops == deltaA.Operations
            old == GetNode(ParseHTML(oldHTML), PathElem)
            new == GetNode(ParseHTML(newHTML), PathElem)
        IN  old.Type = ElementNode =>
                \A k \in {"class", "id", "title"} :
                    LET touches(op) == op.Type = OpUpdateAttr /\ op.Path = PathElem
                                          /\ op.Key = k
                        K == Where(ops, touches)
                    IN  IF HasKey(old, k) /\ HasKey(new, k)
                        THEN \E vOld, vNew \in AttrVals :
                               /\ HasAttr(old, k, vOld)
                               /\ HasAttr(new, k, vNew)
                               /\ IF vOld = vNew THEN K = {}
                                  ELSE Picked(ops, K) =
                                         <<Operation(OpUpdateAttr, PathElem, k,
                                                     vOld, vNew, <<>>, 0)>>
                        ELSE IF HasKey(new, k)
                        THEN \E vNew \in AttrVals :
                               /\ HasAttr(new, k, vNew)
                               /\ Picked(ops, K) = <<OpAttr(PathElem, k, vNew)>>
                        ELSE K = {}

\* one key changed its value, the other key is new, and Diff has run
AttrDiffWitness ==
    /\ pc = "diffed"
    /\ oldHTML = <<Elem(TagDiv, IdX, <<>>)>>
    /\ newHTML = <<Elem(TagDiv, <<Attribute("class", ValX), Attribute("id", ValY)>>, <<>>)>>
    /\ Len(deltaA.Operations) = 2

----------------------------------------------------------------------------
(* Properties of the operations of Patch *)

\* what a node is without its children
Shallow(n) == [Type |-> n.Type, Data |-> n.Data, Attr |-> n.Attr]

\* a tree as the function from its places to the nodes there
PlaceMap(t) == [q \in PathsOf(t, <<>>) |-> Shallow(GetNode(t, q))]

\* Patch reaches operation number k (from 1) of ops: the ones before apply
Reaches(ops, k) == \A j \in 0..(k - 2) : ~FailsAt(ops, j)

\* Patch has stopped at operation number k (from 1) with an error and no
\* output
PatchStopsAt(ops, k) ==
    /\ patched.html = <<>>
    /\ patched.err.msg # ""
    /\ patched.err.op = k - 1
    /\ patched.err.type = ops[k].Type

\* when operation number k is the last one, Patch returns the tree t
PatchEndsWith(ops, k, t) ==
    k = Len(ops) => patched.err = NoErr /\ patched.html = RenderNode(t)

\* the operations of kind type that Patch reaches
Reached(type) ==
    {k \in 1..Len(deltaA.Operations) :
        deltaA.Operations[k].Type = type /\ Reaches(deltaA.Operations, k)}

\* the text at the place of op in tree t, or Nil
TextAt(t, op) ==
    IF op.Path \in PathsOf(t, <<>>) /\ GetNode(t, op.Path).Type = TextNode
    THEN GetNode(t, op.Path) ELSE Nil

\* C34: Patch of UPDATE_TEXT fails with an error and leaves the payload
\* unchanged unless the path resolves to a Text node whose current payload,
\* after the earlier operations of the delta, equals old_value; otherwise
\* it sets that payload to new_value and changes no other node.
UpdateTextContract ==
    pc = "patchedA" =>
        LET ops == deltaA.Operations IN
        \A k \in Reached(OpUpdateText) :
            LET cur == TreeAfter(ops, k - 1)
                new == TreeAfter(ops, k)
                node == TextAt(cur, ops[k])
            IN  IF node # Nil /\ node.Data = ops[k].OldValue
                THEN /\ PlaceMap(new) = [PlaceMap(cur) EXCEPT ![ops[k].Path].Data = ops[k].NewValue]
                     /\ PatchEndsWith(ops, k, new)
                ELSE /\ PatchStopsAt(ops, k)
                     /\ new = cur

\* an UPDATE_TEXT set the text and the next one, made for the old text, was
\* turned down
UpdateTextContractWitness ==
    /\ pc = "patchedA"
    /\ deltaA.Operations = <<OpText(PathText, TextAB, ValX), OpText(PathText, TextAB, ValX)>>
    /\ patched.err.op = 1

\* C35: Patch of DELETE_TEXT fails with an error and leaves the payload
\* unchanged unless the target is a Text node, position >= 0, position +
\* len(old_value) <= len(payload) and the payload from position to position
\* + len(old_value) equals old_value; otherwise the new payload is the old
\* one with exactly that range removed.
DeleteTextContract ==
    pc = "patchedA" =>
        LET ops == deltaA.Operations IN
        \A k \in Reached(OpDeleteText) :
            LET cur == TreeAfter(ops, k - 1)
                new == TreeAfter(ops, k)
                node == TextAt(cur, ops[k])
                pos == ops[k].Position
                n == Len(ops[k].OldValue)
            IN  IF /\ node # Nil
                   /\ pos >= 0
                   /\ pos + n <= Len(node.Data)
                   /\ \A j \in 1..n : node.Data[pos + j] = ops[k].OldValue[j]
                THEN /\ PlaceMap(new) =
                          [PlaceMap(cur) EXCEPT ![ops[k].Path].Data =
                              [j \in 1..(Len(node.Data) - n) |->
                                  IF j <= pos THEN node.Data[j] ELSE node.Data[j + n]]]
                     /\ PatchEndsWith(ops, k, new)
                ELSE /\ PatchStopsAt(ops, k)
                     /\ new = cur

\* a DELETE_TEXT took the b out of ab, and one that names the wrong text
\* was turned down
DeleteTextContractWitness ==
    /\ pc = "patchedA"
    /\ deltaA.Operations = <<OpDelT(PathText, 1, <<"b">>), OpDelT(PathText, 0, <<"b">>)>>
    /\ patched.err.op = 1

\* C36: Patch of INSERT_TEXT fails with an error unless the target is a
\* Text node and 0 <= position <= len(payload); otherwise the new payload
\* is payload[0..position), new_value, payload[position..), so that its
\* length grows by exactly len(new_value).
InsertTextContract ==
    pc = "patchedA" =>
        LET ops == deltaA.Operations IN
        \A k \in Reached(OpInsertText) :
            LET cur == TreeAfter(ops, k - 1)
                new == TreeAfter(ops, k)
                node == TextAt(cur, ops[k])
                pos == ops[k].Position
                v == ops[k].NewValue
            IN  IF node # Nil /\ 0 <= pos /\ pos <= Len(node.Data)
                THEN /\ PlaceMap(new) =
                          [PlaceMap(cur) EXCEPT ![ops[k].Path].Data =
                              [j \in 1..(Len(node.Data) + Len(v)) |->
                                  IF j <= pos THEN node.Data[j]
                                  ELSE IF j <= pos + Len(v) THEN v[j - pos]
                                  ELSE node.Data[j - Len(v)]]]
                     /\ Len(GetNode(new, ops[k].Path).Data) = Len(node.Data) + Len(v)
                     /\ PatchEndsWith(ops, k, new)
                ELSE PatchStopsAt(ops, k)

\* an INSERT_TEXT at the end of the text went in, and then one at the new
\* end, an offset the text did not have before
InsertTextContractWitness ==
    /\ pc = "patchedA"
    /\ deltaA.Operations = <<OpInsT(PathText, 2, ValX), OpInsT(PathText, 3, ValX)>>
    /\ patched.err = NoErr
    /\ GetNode(ParseHTML(patched.html), PathText).Data = <<"a", "b", "x", "x">>

\* the node at path in tree t, or Nil when nothing is there
At(t, path) == IF path \in PathsOf(t, <<>>) THEN GetNode(t, path) ELSE Nil

\* tree new is tree cur but for the child list of the node at path
SameButKids(cur, new, path) ==
    /\ PathsOf(cur, <<>>) \ {q \in PathsOf(cur, <<>>) : PrefixOf(path, q) /\ q # path}
         = PathsOf(new, <<>>) \ {q \in PathsOf(new, <<>>) : PrefixOf(path, q) /\ q # path}
    /\ \A q \in PathsOf(cur, <<>>) :
          ~(PrefixOf(path, q) /\ q # path) => Shallow(At(cur, q)) = Shallow(At(new, q))

\* INSERT_NODE number k of the delta is one Patch can carry out: its parent
\* is an element and its node_data spells a node
Insertable(cur, op) ==
    /\ At(cur, op.Path) # Nil
    /\ At(cur, op.Path).Type = ElementNode
    /\ op.NodeData # <<>>

\* C37: Patch of INSERT_NODE with 0 <= position <= child count of the
\* parent makes the new node the position-th child - the children at
\* position and behind move up by one, the children before it keep their
\* indices, and position = child count appends.
InsertNodeInRange ==
    pc = "patchedA" =>
        LET ops == deltaA.Operations IN
        \A k \in Reached(OpInsertNode) :
            LET cur == TreeAfter(ops, k - 1)
                new == TreeAfter(ops, k)
                pos == ops[k].Position
                kids == At(cur, ops[k].Path).Kids
                newKids == At(new, ops[k].Path).Kids
            IN  Insertable(cur, ops[k]) /\ 0 <= pos /\ pos <= Len(kids) =>
                    /\ ~FailsAt(ops, k - 1)
                    /\ Len(newKids) = Len(kids) + 1
                    /\ newKids[pos + 1] = Head(ops[k].NodeData)
                    /\ \A i \in 0..(Len(kids) - 1) :
                          newKids[IF i < pos THEN i + 1 ELSE i + 2] = kids[i + 1]
                    /\ pos = Len(kids) => newKids = Append(kids, Head(ops[k].NodeData))
                    /\ SameButKids(cur, new, ops[k].Path)
                    /\ PatchEndsWith(ops, k, new)

\* a node went in between the two children of the body
InsertNodeInRangeWitness ==
    /\ pc = "patchedA"
    /\ deltaA.Operations = <<OpIns(PathBody, 1, NodeX)>>
    /\ patched.err = NoErr
    /\ At(ParseHTML(patched.html), PathBody).Kids
         = <<NodeBase[1], NodeX[1], NodeBase[2]>>

\* C38: out-of-range insert positions are not rejected - Patch of
\* INSERT_NODE with a position greater than the child count of the parent,
\* or negative, reports success and appends the node as the last child.
InsertNodeOutOfRange ==
    pc = "patchedA" =>
        LET ops == deltaA.Operations IN
        \A k \in Reached(OpInsertNode) :
            LET cur == TreeAfter(ops, k - 1)
                new == TreeAfter(ops, k)
                pos == ops[k].Position
                kids == At(cur, ops[k].Path).Kids
            IN  Insertable(cur, ops[k]) /\ (pos < 0 \/ pos > Len(kids)) =>
                    /\ ~FailsAt(ops, k - 1)
                    /\ At(new, ops[k].Path).Kids = Append(kids, Head(ops[k].NodeData))
                    /\ SameButKids(cur, new, ops[k].Path)
                    /\ PatchEndsWith(ops, k, new)

\* a node for a position behind the end and then one for position -1 were
\* both appended
InsertNodeOutOfRangeWitness ==
    /\ pc = "patchedA"
    /\ deltaA.Operations = <<OpIns(PathBody, 3, NodeX), OpIns(PathBody, -1, <<Text(ValX)>>)>>
    /\ patched.err = NoErr
    /\ At(ParseHTML(patched.html), PathBody).Kids
         = <<NodeBase[1], NodeBase[2], NodeX[1], Text(ValX)>>

\* C39: Patch of DELETE_NODE removes the node at the path with its whole
\* subtree - every later sibling moves down by one index and all other
\* nodes are unchanged; it fails with an error when the path does not
\* resolve or is empty.
DeleteNodeContract ==
    pc = "patchedA" =>
        LET ops == deltaA.Operations IN
        \A k \in Reached(OpDeleteNode) :
            LET cur == TreeAfter(ops, k - 1)
                new == TreeAfter(ops, k)
                path == ops[k].Path
            IN  IF At(cur, path) # Nil /\ path # <<>>
                THEN LET kids == At(cur, Front(path)).Kids
                         newKids == At(new, Front(path)).Kids
                         d == Last(path)
                     IN  /\ ~FailsAt(ops, k - 1)
                         /\ Len(newKids) = Len(kids) - 1
                         /\ \A i \in 0..(Len(kids) - 1) :
                               /\ i < d => newKids[i + 1] = kids[i + 1]
                               /\ i > d => newKids[i] = kids[i + 1]
                         /\ SameButKids(cur, new, Front(path))
                         /\ PatchEndsWith(ops, k, new)
                ELSE /\ PatchStopsAt(ops, k)
                     /\ new = cur

\* the div went with its text and the paragraph behind it became child 0
DeleteNodeContractWitness ==
    /\ pc = "patchedA"
    /\ deltaA.Operations = <<OpDel(PathElem), OpDel(PathOther)>>
    /\ patched.err.op = 1
    /\ At(TreeAfter(deltaA.Operations, 1), PathBody).Kids = <<NodeBase[2]>>

\* C40: Patch of UPDATE_ATTR fails unless the target is an Element;
\* otherwise, whatever old_value says, the element then has exactly one
\* attribute named key, with value new_value - updated in place when
\* present, appended last when absent - and all other attributes, their
\* order and all other nodes are unchanged.
UpdateAttrContract ==
    pc = "patchedA" =>
        LET ops == deltaA.Operations IN
        \A k \in Reached(OpUpdateAttr) :
            LET cur == TreeAfter(ops, k - 1)
                new == TreeAfter(ops, k)
                path == ops[k].Path
                node == At(cur, path)
                named(n) == {i \in 1..Len(n.Attr) : n.Attr[i].Key = ops[k].Key}
                set == Attribute(ops[k].Key, ops[k].NewValue)
            IN  IF node # Nil /\ node.Type = ElementNode
                THEN /\ ~FailsAt(ops, k - 1)
                     /\ Cardinality(named(At(new, path))) = 1
                     /\ \A i \in named(At(new, path)) : At(new, path).Attr[i] = set
                     /\ IF named(node) # {}
                        THEN /\ named(At(new, path)) = named(node)
                             /\ Len(At(new, path).Attr) = Len(node.Attr)
                        ELSE At(new, path).Attr = Append(node.Attr, set)
                     /\ \A i \in 1..Len(node.Attr) :
                           i \notin named(node) => At(new, path).Attr[i] = node.Attr[i]
                     /\ PathsOf(new, <<>>) = PathsOf(cur, <<>>)
                     /\ \A q \in PathsOf(cur, <<>>) :
                           IF q = path
                           THEN /\ At(new, q).Type = node.Type
                                /\ At(new, q).Data = node.Data
                           ELSE Shallow(At(new, q)) = Shallow(At(cur, q))
                     /\ PatchEndsWith(ops, k, new)
                ELSE PatchStopsAt(ops, k)

\* the second attribute of the div was set in place under a stale
\* old_value, and a key the div did not have was added behind it
UpdateAttrContractWitness ==
    /\ pc = "patchedA"
    /\ deltaA.Operations = <<OpAttrFrom(PathElem, "id", ValY, ValY),
                              OpAttrFrom(PathElem, "title", <<>>, ValY)>>
    /\ patched.err = NoErr
    /\ At(ParseHTML(patched.html), PathElem).Attr
         = <<Attribute("class", ValX), Attribute("id", ValY), Attribute("title", ValY)>>

----------------------------------------------------------------------------
(* Properties of transformOp *)

OpA == deltaA.Operations[1]
OpB == deltaB.Operations[1]

BaseTree == ParseHTML(oldHTML)

\* the operation applies to the base on its own
ValidOnBase(op) == applyOp(BaseTree, op).err = ""


\* the parent and the child index the node operation a inserts or deletes at
ParentOf(a) == IF a.Type = OpInsertNode THEN a.Path ELSE Front(a.Path)
IndexOf(a) == IF a.Type = OpInsertNode THEN a.Position ELSE Last(a.Path)

\* b is an INSERT_NODE into the parent P itself
InsertsUnder(b, P) == b.Type = OpInsertNode /\ b.Path = P

\* b has a sibling index under P: it inserts into P or its path runs below P
HasSiblingIndex(b, P) ==
    InsertsUnder(b, P) \/ (Len(b.Path) > Len(P) /\ PrefixOf(P, b.Path))

SiblingIndex(b, P) == IF InsertsUnder(b, P) THEN b.Position ELSE b.Path[Len(P) + 1]

WithSiblingIndex(b, P, k) ==
    IF InsertsUnder(b, P) THEN [b EXCEPT !.Position = k]
    ELSE [b EXCEPT !.Path[Len(P) + 1] = k]

\* the index the claim gives the transformed b
Rebased(a, k) ==
    IF a.Type = OpInsertNode /\ IndexOf(a) <= k THEN k + 1
    ELSE IF a.Type = OpDeleteNode /\ IndexOf(a) < k THEN k - 1
    ELSE k

\* what tells the nodes of the base and the inserted nodes apart
Label(n) == IF n = Nil THEN Nil ELSE [Type |-> n.Type, Data |-> n.Data, Attr |-> n.Attr]

KidLabels(tree, P) ==
    LET n == GetNode(tree, P) IN [i \in 1..Len(n.Kids) |-> Label(n.Kids[i])]

Without(labels, l) == LET keep(x) == x # l IN SelectSeq(labels, keep)

\* C26: sibling-index rebasing - for a an INSERT_NODE at parent P position p
\* or a DELETE_NODE of child d of P, and b with sibling index k under P, the
\* transformed b is b with index k+1 (a inserts, p <= k), k-1 (a deletes,
\* d < k) or k, nothing else changed; hence, when b's target is not inside
\* the subtree a deletes, the transformed b resolves in the tree after a to
\* the node b addresses in the base, or inserts into the same gap between
\* the surviving base siblings.
SiblingRebase ==
    pc \in {"transformed", "applied"}
      /\ OpA.Type \in {OpInsertNode, OpDeleteNode} /\ OpA.Path # <<>>
      /\ HasSiblingIndex(OpB, ParentOf(OpA)) =>
        LET P == ParentOf(OpA)
            k == SiblingIndex(OpB, P)
            after == applyOp(BaseTree, OpA)
            bT == xform.ops[1]
        IN  /\ ~xform.panic
            /\ xform.ops = <<WithSiblingIndex(OpB, P, Rebased(OpA, k))>>
            /\ ValidOnBase(OpA) /\ ValidOnBase(OpB)
                  /\ ~(OpA.Type = OpDeleteNode /\ PrefixOf(OpA.Path, OpB.Path)) =>
                  IF InsertsUnder(OpB, P)
                  THEN LET both == KidLabels(applyOp(after.root, bT).root, P)
                           alone == KidLabels(applyOp(BaseTree, OpB).root, P)
                       IN  IF OpA.Type = OpInsertNode
                           THEN IF OpA.NodeData = <<>> THEN both = alone
                                ELSE Without(both, Label(OpA.NodeData[1])) = alone
                           ELSE both = Without(alone, Label(GetNode(BaseTree, OpA.Path)))
                  ELSE Label(GetNode(after.root, bT.Path)) = Label(GetNode(BaseTree, OpB.Path))

IsTextEdit(op) == op.Type = OpInsertText \/ op.Type = OpDeleteText

\* the payload of the text node after Patch, as the patched document spells it
PatchedText == GetNode(ParseHTML(patched.html), PathText).Data

\* the text t with the string of insert a and the string of insert b put in
\* at their offsets of t, the string of a first when the offsets are equal
BothInserted(t, a, b) ==
    IF b.Position >= a.Position
    THEN Slice(t, 0, a.Position) \o a.NewValue \o Slice(t, a.Position, b.Position)
           \o b.NewValue \o Slice(t, b.Position, Len(t))
    ELSE Slice(t, 0, b.Position) \o b.NewValue \o Slice(t, b.Position, a.Position)
           \o a.NewValue \o Slice(t, a.Position, Len(t))

\* C27: text transform against an insert - for a an INSERT_TEXT at ap of
\* string as and b an INSERT_TEXT or DELETE_TEXT on the same path, the
\* transformed b is b at position b.position + len(as) when b.position >= ap
\* (ties included) and b itself otherwise, never dropped; and for two
\* INSERT_TEXT valid on the base text, a followed by the transformed b gives
\* the base text with both strings inserted, that of a first on a tie.
TextTransformInsert ==
    pc \in {"transformed", "applied"} /\ OpA.Type = OpInsertText /\ IsTextEdit(OpB) =>
        /\ ~xform.panic
        /\ xform.ops = <<[OpB EXCEPT !.Position =
                            IF OpB.Position >= OpA.Position
                            THEN OpB.Position + Len(OpA.NewValue) ELSE OpB.Position]>>
        /\ pc = "applied" /\ OpB.Type = OpInsertText
              /\ ValidOnBase(OpA) /\ ValidOnBase(OpB) =>
              /\ patched.err = NoErr
              /\ PatchedText = BothInserted(BaseText, OpA, OpB)

\* two different strings were inserted at the same offset inside the text:
\* the string of a comes first
TextTransformInsertWitness ==
    /\ pc = "applied"
    /\ OpA.Type = OpInsertText /\ OpB.Type = OpInsertText
    /\ OpA.Position = OpB.Position
    /\ OpA.Position > 0 /\ OpA.Position < Len(BaseText)
    /\ OpA.NewValue # OpB.NewValue
    /\ patched.err = NoErr
    /\ PatchedText = Slice(BaseText, 0, OpA.Position) \o OpA.NewValue \o OpB.NewValue
                        \o Slice(BaseText, OpA.Position, Len(BaseText))

\* C28: text transform against a delete - for a a DELETE_TEXT of string as
\* at ap, ae = ap + len(as), and b an INSERT_TEXT or DELETE_TEXT on the same
\* path: b.position >= ae gives b moved back by len(as); ap <= b.position <
\* ae gives an INSERT_TEXT moved to ap and a DELETE_TEXT dropped; b.position
\* < ap gives b unchanged, but a DELETE_TEXT reaching past ap dropped.  When
\* b is not dropped and a and b are each valid on the base text, a followed
\* by the transformed b passes Patch.
TextTransformDelete ==
    pc \in {"transformed", "applied"} /\ OpA.Type = OpDeleteText /\ IsTextEdit(OpB) =>
        LET ap == OpA.Position
            ae == ap + Len(OpA.OldValue)
            bp == OpB.Position
        IN  /\ ~xform.panic
            /\ bp >= ae => xform.ops = <<[OpB EXCEPT !.Position = bp - Len(OpA.OldValue)]>>
            /\ ap <= bp /\ bp < ae =>
                  xform.ops = IF OpB.Type = OpInsertText
                              THEN <<[OpB EXCEPT !.Position = ap]>> ELSE <<>>
            /\ bp < ap =>
                  xform.ops = IF OpB.Type = OpDeleteText /\ bp + Len(OpB.OldValue) > ap
                              THEN <<>> ELSE <<OpB>>
            /\ pc = "applied" /\ xform.ops # <<>>
                  /\ ValidOnBase(OpA) /\ ValidOnBase(OpB) =>
                  patched.err = NoErr

\* an insert inside the deleted range was moved to the start of the range
\* and applied after the delete
TextTransformDeleteWitness ==
    /\ pc = "applied"
    /\ OpA.Type = OpDeleteText /\ OpB.Type = OpInsertText
    /\ ValidOnBase(OpA) /\ ValidOnBase(OpB)
    /\ OpA.Position < OpB.Position
    /\ OpB.Position < OpA.Position + Len(OpA.OldValue)
    /\ xform.ops[1].Position = OpA.Position
    /\ patched.err = NoErr

----------------------------------------------------------------------------
(* Properties of detectConflicts *)

OpsA == deltaA.Operations
OpsB == deltaB.Operations

\* q is p followed by at least one more index
StrictExtension(p, q) == Len(q) > Len(p) /\ SubSeq(q, 1, Len(p)) = p

\* the list cs holds a conflict of that kind for the pair (a, b), in either order
Reported(cs, kind, a, b) ==
    \E k \in 1..Len(cs) :
        /\ cs[k].Type = kind
        /\ {cs[k].Ops[1], cs[k].Ops[2]} = {a, b}

ReportedAny(cs, a, b) ==
    \E k \in 1..Len(cs) : {cs[k].Ops[1], cs[k].Ops[2]} = {a, b}

ConflictSet(cs) ==
    {[kind |-> cs[k].Type, pair |-> {cs[k].Ops[1], cs[k].Ops[2]}] : k \in 1..Len(cs)}

\* C4: conflict symmetry - detectConflicts(A, B) and detectConflicts(B, A)
\* report the same set of conflicts (kind and unordered pair of operations).
ConflictSymmetry ==
    pc = "done" => ConflictSet(conflAB) = ConflictSet(conflBA)

\* C5: every pair of UPDATE_ATTR operations on the same path and key with
\* different new values is reported as a Direct conflict, whatever else A
\* holds on that path; pairs on different keys are not reported.
AttrConflictEveryPair ==
    pc = "done" =>
        \A i \in 1..Len(OpsA), j \in 1..Len(OpsB) :
            LET a == OpsA[i]
                b == OpsB[j]
            IN  (a.Type = OpUpdateAttr /\ b.Type = OpUpdateAttr /\ a.Path = b.Path) =>
                    /\ (a.Key = b.Key /\ a.NewValue # b.NewValue)
                          => Reported(conflAB, "Direct", a, b)
                    /\ a.Key # b.Key => ~ReportedAny(conflAB, a, b)

\* C6: DELETE_NODE at a path against an operation of another kind with the
\* same path is reported as a conflict, whichever delta holds the delete.
DeleteVsEditConflict ==
    pc = "done" =>
        \A i \in 1..Len(OpsA), j \in 1..Len(OpsB) :
            LET a == OpsA[i]
                b == OpsB[j]
            IN  (/\ a.Path = b.Path
                 /\ (a.Type = OpDeleteNode) # (b.Type = OpDeleteNode))
                    => ReportedAny(conflAB, a, b)

\* C8: UPDATE_TEXT at a path against INSERT_TEXT or DELETE_TEXT at the same
\* path is reported as a Direct conflict, in either direction.
MixedTextConflict ==
    pc = "done" =>
        \A i \in 1..Len(OpsA), j \in 1..Len(OpsB) :
            LET a == OpsA[i]
                b == OpsB[j]
            IN  (/\ a.Path = b.Path
                 /\ \/ (a.Type = OpUpdateText /\ IsTextEdit(b))
                    \/ (b.Type = OpUpdateText /\ IsTextEdit(a)))
                    => /\ Reported(conflAB, "Direct", a, b)
                       /\ Reported(conflBA, "Direct", a, b)

\* one side deletes a node and the other works strictly below it
DeletesAncestor(a, b) ==
    \/ (a.Type = OpDeleteNode /\ StrictExtension(a.Path, b.Path))
    \/ (b.Type = OpDeleteNode /\ StrictExtension(b.Path, a.Path))

StructureExact(cs, opsA, opsB) ==
    /\ \A i \in 1..Len(opsA), j \in 1..Len(opsB) :
          DeletesAncestor(opsA[i], opsB[j]) =>
              \E k \in 1..Len(cs) :
                  cs[k].Type = "Structure" /\ cs[k].Ops = <<opsA[i], opsB[j]>>
    /\ \A k \in 1..Len(cs) :
          cs[k].Type = "Structure" =>
              /\ DeletesAncestor(cs[k].Ops[1], cs[k].Ops[2])
              /\ \E i \in 1..Len(opsA) : cs[k].Ops[1] = opsA[i]
              /\ \E j \in 1..Len(opsB) : cs[k].Ops[2] = opsB[j]

\* C9: a DELETE_NODE at P in one delta and an operation on a strict
\* extension of P in the other is reported as a Structure conflict naming
\* both operations, whether the delete is in A or in B, and no Structure
\* conflict is reported for any other pair.
StructureConflicts ==
    pc = "done" =>
        /\ StructureExact(conflAB, OpsA, OpsB)
        /\ StructureExact(conflBA, OpsB, OpsA)

\* C9 witness: a Structure conflict found with the delete in B
StructureConflictsWitness ==
    /\ pc = "done"
    /\ \E k \in 1..Len(conflAB) :
          /\ conflAB[k].Type = "Structure"
          /\ conflAB[k].Ops[2].Type = OpDeleteNode
          /\ conflAB[k].Ops[1].Type # OpDeleteNode
          /\ StrictExtension(conflAB[k].Ops[2].Path, conflAB[k].Ops[1].Path)

\* the lists got from ops by permuting, among themselves, UPDATE_ATTR
\* operations on one element; every other operation stays where it is
AttrReorderings(ops) ==
    LET n == Len(ops)
        Moves == {f \in [1..n -> 1..n] :
                    /\ \A i, j \in 1..n : f[i] = f[j] => i = j
                    /\ \A i \in 1..n :
                          \/ f[i] = i
                          \/ /\ ops[i].Type = OpUpdateAttr
                             /\ ops[f[i]].Type = OpUpdateAttr
                             /\ ops[i].Path = ops[f[i]].Path}
    IN  {[i \in 1..n |-> ops[f[i]]] : f \in Moves}

\* the kind and the path of every conflict of the list
ConflictPlaces(cs) == {[kind |-> cs[k].Type, path |-> cs[k].Path] : k \in 1..Len(cs)}

\* C29: conflict detection does not depend on the order of the operations
\* inside a delta - for every reordering A' of A that only permutes
\* UPDATE_ATTR operations on the same element, detectConflicts(A', B)
\* reports the same conflicts as detectConflicts(A, B), so that Merge has the
\* same outcome for A and A'.
DetectOrderIndependent ==
    pc = "detected" =>
        \A opsA2 \in AttrReorderings(OpsA) :
            ConflictPlaces(detectConflicts(opsA2, OpsB)) = ConflictPlaces(conflAB)

----------------------------------------------------------------------------
(* Properties of Merge *)

\* a tree with each attribute list read as a set
RECURSIVE Canon(_)
Canon(n) ==
    [Type |-> n.Type, Data |-> n.Data,
     Attr |-> {n.Attr[i] : i \in 1..Len(n.Attr)},
     Kids |-> [i \in 1..Len(n.Kids) |-> Canon(n.Kids[i])]]

SameTree(m, n) == Canon(m) = Canon(n)

\* C12: concurrent text insertions merge end to end - when A's revision
\* is the base text with a string put in at offset ap and B's revision the
\* base text with a string put in at an offset bp > ap, Merge of the two
\* deltas Diff produced returns no conflict and no error, and the merged
\* text is the base text with both strings in (B's at bp + len(A's)).
TextInsertsMerge ==
    pc = "mergedDiffed" =>
        \A ap \in 0..Len(BaseText), bp \in 0..Len(BaseText), va \in {ValX, ValY},
           vb \in {ValX, ValY} :
            (/\ bp > ap
             /\ newHTML = TextDoc(InsertAt(BaseText, ap, va))
             /\ newHTMLB = TextDoc(InsertAt(BaseText, bp, vb)))
                => /\ merged.conflicts = <<>>
                   /\ merged.err = NoErr
                   /\ ParseHTML(merged.html)
                        = ParseHTML(TextDoc(InsertAt(InsertAt(BaseText, ap, va),
                                                     bp + Len(va), vb)))

\* the children of <body> in the tree a text parses to
BodyKids(h) == GetNode(ParseHTML(h), PathBody).Kids

\* the (0-based) places of node n in a child list
PlacesOf(kids, n) == {k \in 0..(Len(kids) - 1) : kids[k + 1] = n}

\* C13: concurrent sibling insertions - when A and B hold INSERT_NODE
\* operations under the same parent, at whatever positions, no conflict is
\* reported and Merge succeeds; every inserted node is then a child of that
\* parent exactly once, the children of the base keep their relative order,
\* and for every a in A and b in B with a.position <= b.position the node
\* of a comes before the node of b.
SiblingInsertsMerge ==
    pc \in {"merged", "done"} =>
        LET kids == BodyKids(merged.html)
            nodeA(i) == OpsA[i].NodeData[1]
            nodeB(j) == OpsB[j].NodeData[1]
            place(n) == CHOOSE k \in PlacesOf(kids, n) : TRUE
        IN  /\ merged.conflicts = <<>>
            /\ merged.err = NoErr
            /\ ~merged.panic
            /\ Len(kids) = Len(MergeBase) + Len(OpsA) + Len(OpsB)
            /\ \A i \in 1..Len(OpsA) : Cardinality(PlacesOf(kids, nodeA(i))) = 1
            /\ \A j \in 1..Len(OpsB) : Cardinality(PlacesOf(kids, nodeB(j))) = 1
            /\ \A k \in 1..Len(MergeBase) :
                  Cardinality(PlacesOf(kids, MergeBase[k])) = 1
            /\ \A k, l \in 1..Len(MergeBase) :
                  k < l => place(MergeBase[k]) < place(MergeBase[l])
            /\ \A i \in 1..Len(OpsA), j \in 1..Len(OpsB) :
                  OpsA[i].Position <= OpsB[j].Position
                      => place(nodeA(i)) < place(nodeB(j))

\* a and b address the same thing: the same path and, between two
\* attribute updates, the same key
SharePath(a, b) ==
    /\ a.Path = b.Path
    /\ (a.Type = OpUpdateAttr /\ b.Type = OpUpdateAttr) => a.Key = b.Key

OnlyUpdates(ops) ==
    \A i \in 1..Len(ops) : ops[i].Type \in {OpUpdateText, OpUpdateAttr}

EachAppliesToBase(ops) ==
    \A i \in 1..Len(ops) : applyOp(ParseHTML(oldHTML), ops[i]).err = ""

Disjoint(opsA, opsB) ==
    \A i \in 1..Len(opsA), j \in 1..Len(opsB) : ~SharePath(opsA[i], opsB[j])

\* the update ops[i] is the last of its list on what it addresses, and the
\* tree shows it
UpdateShows(tree, ops, i) ==
    LET op == ops[i]
        node == GetNode(tree, op.Path)
    IN  (\A k \in (i + 1)..Len(ops) : ~SharePath(op, ops[k])) =>
            IF op.Type = OpUpdateText THEN node.Data = op.NewValue
            ELSE getAttr(node, op.Key) = op.NewValue

\* Merge in both orders and MergeAll succeed without conflict, agree, and
\* yield the base with the updates of both deltas
UpdatesMerged ==
    LET tree == ParseHTML(merged.html)
    IN  /\ merged.conflicts = <<>> /\ merged.err = NoErr
        /\ mergedBA.conflicts = <<>> /\ mergedBA.err = NoErr
        /\ mergedAll.conflicts = <<>> /\ mergedAll.err = NoErr
        /\ mergedAll.html = merged.html
        /\ SameTree(tree, ParseHTML(mergedBA.html))
        /\ \A i \in 1..Len(OpsA) : UpdateShows(tree, OpsA, i)
        /\ \A j \in 1..Len(OpsB) : UpdateShows(tree, OpsB, j)
        /\ SameTree(tree, applyOps(ParseHTML(patched.html), OpsB, 0).root)
        /\ SameTree(tree, applyOps(ParseHTML(patchedB.html), OpsA, 0).root)

\* C14 as stated: when A and B hold only UPDATE_TEXT and UPDATE_ATTR
\* operations each of which applies to the base, and no operation of A
\* shares its path (attributes: path and key) with one of B, Merge and
\* MergeAll report no conflict and no error, the result is the base with
\* every update applied, and Merge(base, B, A) yields the same document.
DisjointUpdatesMerge ==
    (/\ pc = "all"
     /\ OnlyUpdates(OpsA) /\ OnlyUpdates(OpsB)
     /\ EachAppliesToBase(OpsA) /\ EachAppliesToBase(OpsB)
     /\ Disjoint(OpsA, OpsB))
        => UpdatesMerged

\* C14 amended: the same, for deltas each of which patches the base on its
\* own (Patch(base, A) and Patch(base, B) return no error).
DisjointDeltasMerge ==
    (/\ pc = "all"
     /\ OnlyUpdates(OpsA) /\ OnlyUpdates(OpsB)
     /\ patched.err = NoErr /\ patchedB.err = NoErr
     /\ Disjoint(OpsA, OpsB))
        => UpdatesMerged

\* C14 witness: Merge and MergeAll have run on a text update of A and an
\* attribute update of B, and on two attribute updates of one node
DisjointDeltasMergeWitness ==
    /\ pc = "all"
    /\ patched.err = NoErr /\ patchedB.err = NoErr
    /\ Disjoint(OpsA, OpsB)
    /\ Len(OpsA) = 2 /\ Len(OpsB) = 1
    /\ OpsA[1].Type = OpUpdateText
    /\ OpsA[2].Type = OpUpdateAttr
    /\ OpsB[1].Type = OpUpdateAttr
    /\ OpsB[1].Path = OpsA[2].Path
    /\ merged.html # <<>>

\* t is what transformOp may make of b: b with another position or path
IsTransformOf(t, b) ==
    /\ t.Type = b.Type
    /\ t.Key = b.Key
    /\ t.OldValue = b.OldValue
    /\ t.NewValue = b.NewValue
    /\ t.NodeData = b.NodeData
    /\ Len(t.Path) = Len(b.Path)

\* rest holds, in the order of opsB, one transformed operation for each
\* operation of opsB that was not dropped
TransformedInOrder(rest, opsB) ==
    \E f \in [1..Len(rest) -> 1..Len(opsB)] :
        /\ \A k, l \in 1..Len(rest) : k < l => f[k] < f[l]
        /\ \A k \in 1..Len(rest) : IsTransformOf(rest[k], opsB[f[k]])

MergeSucceeded(m) == m.err = NoErr /\ m.conflicts = <<>> /\ ~m.panic

\* C15: order of the merged delta - when Merge succeeds, the operations of
\* the delta it returns are the operations of A, unchanged and in their
\* order, followed by the transformed operations of B in the order of B;
\* its author is "system-merge" and its base hash the hash of the base text.
MergedDeltaOrder ==
    (pc \in {"merged", "done"} /\ MergeSucceeded(merged)) =>
        LET ops == merged.delta.Operations
        IN  /\ Len(ops) >= Len(OpsA)
            /\ SubSeq(ops, 1, Len(OpsA)) = OpsA
            /\ TransformedInOrder(SubSeq(ops, Len(OpsA) + 1, Len(ops)), OpsB)
            /\ merged.delta.Author = "system-merge"
            /\ merged.delta.BaseHash = hashString(oldHTML)

\* C15 witness: Merge has succeeded on a non-empty A and two operations of
\* B, the first of which the transform has changed
MergedDeltaOrderWitness ==
    /\ pc = "merged"
    /\ MergeSucceeded(merged)
    /\ Len(OpsA) >= 1
    /\ Len(OpsB) = 2
    /\ Len(merged.delta.Operations) = Len(OpsA) + 2
    /\ merged.delta.Operations[Len(OpsA) + 1] # OpsB[1]

HashesMatch ==
    /\ deltaA.BaseHash = hashString(oldHTML)
    /\ deltaB.BaseHash = hashString(oldHTML)

\* C16: conflicts are reported without output and without error - when
\* both base hashes match and detectConflicts(A.ops, B.ops) is not empty,
\* Merge returns exactly that list, an empty text, no delta and no error,
\* and runs neither the transform nor Patch.
ConflictsWithoutOutput ==
    (/\ pc \in {"merged", "done"}
     /\ HashesMatch
     /\ detectConflicts(OpsA, OpsB) # <<>>)
        => /\ merged.conflicts = detectConflicts(OpsA, OpsB)
           /\ merged.html = <<>>
           /\ merged.delta = NilDelta
           /\ merged.err = NoErr
           /\ ~merged.panic

\* C16 witness: Merge has returned conflicts for deltas whose transform
\* would have aborted
ConflictsWithoutOutputWitness ==
    /\ pc = "merged"
    /\ HashesMatch
    /\ Len(merged.conflicts) > 0
    /\ transformAll(OpsB, OpsA, 1).panic

\* C31: transform is total - for deltas with matching base hash and no
\* detected conflict Merge ends with an error value or a result and never
\* aborts inside transformOp, also when A holds a DELETE_NODE of the empty
\* path and B an operation with the empty path.
TransformTotal ==
    ~merged.panic /\ ~mergedBA.panic

\* C18: base-hash gate of Merge - when the base hash of A or of B differs
\* from the hash of the base text, Merge returns an error, no text, no
\* delta and no conflict list, and runs neither the conflict detection nor
\* Patch.
MergeHashGate ==
    (pc \in {"merged", "done"} /\ ~HashesMatch)
        => /\ merged.err = Err("base hash mismatch")
           /\ merged.html = <<>>
           /\ merged.delta = NilDelta
           /\ merged.conflicts = <<>>
           /\ ~merged.panic

\* C18 witness: Merge has refused deltas of which only B has a foreign base
\* hash (that of a text with the same tree) and whose operations conflict
MergeHashGateWitness ==
    /\ pc = "merged"
    /\ deltaA.BaseHash = hashString(oldHTML)
    /\ deltaB.BaseHash # hashString(oldHTML)
    /\ detectConflicts(OpsA, OpsB) # <<>>
    /\ merged.err = Err("base hash mismatch")

\* C21: deltas are immutable - the operation list of every delta the
\* caller holds, whether it passed it in or an earlier call returned it, is
\* what it was when the delta was created, also after the same delta was
\* deltaA of two Merge calls.
DeltasImmutable ==
    \A k \in 1..Len(kept) : SliceOps(heap, kept[k]) = kept[k].created

\* C2: when both deltas patch the base on their own and no conflict is
\* detected, Merge returns no error.
MergeAppliesWithoutConflict ==
    (/\ pc \in {"merged", "done"}
     /\ patched.err = NoErr
     /\ patchedB.err = NoErr
     /\ merged.conflicts = <<>>)
        => (merged.err = NoErr /\ ~merged.panic)

\* C3: when neither direction detects a conflict, Merge(h, a, b) and
\* Merge(h, b, a) both succeed and produce the same tree.
MergeCommutes ==
    (/\ pc = "done"
     /\ merged.conflicts = <<>>
     /\ mergedBA.conflicts = <<>>)
        => /\ merged.err = NoErr
           /\ mergedBA.err = NoErr
           /\ SameTree(ParseHTML(merged.html), ParseHTML(mergedBA.html))

\* C7: when A and B both delete the node at the same path, no conflict is
\* reported for the pair, Merge succeeds, and when these are the only
\* operations the result is the base without exactly that node.
ConcurrentDeleteIdempotent ==
    pc \in {"merged", "done"} =>
        \A i \in 1..Len(OpsA), j \in 1..Len(OpsB) :
            LET a == OpsA[i]
                b == OpsB[j]
            IN  (a.Type = OpDeleteNode /\ b.Type = OpDeleteNode /\ a.Path = b.Path) =>
                    /\ ~ReportedAny(merged.conflicts, a, b)
                    /\ merged.conflicts = <<>> => merged.err = NoErr
                    /\ (Len(OpsA) = 1 /\ Len(OpsB) = 1) =>
                          /\ merged.err = NoErr
                          /\ merged.html = patched.html

BothUpdateText ==
    /\ Len(OpsA) = 1
    /\ Len(OpsB) = 1
    /\ OpsA[1].Type = OpUpdateText
    /\ OpsB[1].Type = OpUpdateText
    /\ OpsA[1].Path = OpsB[1].Path

\* C10: when A and B are each one UPDATE_TEXT at the same path, Merge returns
\* exactly one conflict, of kind Direct, and no merged output if the new
\* values differ, and reports no conflict if they are equal.
AtomicTextConflict ==
    (pc \in {"merged", "done"} /\ BothUpdateText) =>
        IF OpsA[1].NewValue # OpsB[1].NewValue
        THEN /\ Len(merged.conflicts) = 1
             /\ merged.conflicts[1].Type = "Direct"
             /\ merged.conflicts[1].Ops = <<OpsA[1], OpsB[1]>>
             /\ merged.html = <<>>
             /\ merged.delta = NilDelta
             /\ merged.err = NoErr
        ELSE merged.conflicts = <<>>

\* C10 witness: Merge has run on two different replacements of one text node
AtomicTextConflictWitness ==
    /\ pc = "merged"
    /\ BothUpdateText
    /\ OpsA[1].NewValue # OpsB[1].NewValue
    /\ Len(merged.conflicts) = 1

\* the result carries nothing but the error
OnlyError(r) == r.html = <<>> /\ r.delta = NilDelta /\ r.conflicts = <<>>

\* C30: Merge is all-or-nothing on error - whenever Merge returns an error
\* (base-hash mismatch, or Patch of the combined delta failing), the merged
\* text is empty, the returned delta is nil and the conflict list is nil;
\* the same for MergeAll with any number of deltas.
MergeAllOrNothing ==
    /\ ~merged.panic /\ merged.err # NoErr => OnlyError(merged)
    /\ ~mergedBA.panic /\ mergedBA.err # NoErr => OnlyError(mergedBA)
    /\ ~mergedAll.panic /\ mergedAll.err # NoErr => OnlyError(mergedAll)

----------------------------------------------------------------------------
(* Properties of MergeAll *)

\* the result of round k of the fold: round 1 merges the first two deltas,
\* round k the delta round k - 1 returned with delta number k + 1
RECURSIVE Round(_)
Round(k) ==
    IF k = 1 THEN Merge(oldHTML, deltas[1], deltas[2])
    ELSE Merge(oldHTML, Round(k - 1).delta, deltas[k + 1])

RoundStops(k) == Round(k).err # NoErr \/ Round(k).conflicts # <<>>

\* C20: MergeAll is a left fold that stops early - for two or more deltas
\* it returns what the last round of the fold returned, or, at the first
\* round that returns an error or conflicts, that error or those conflicts
\* with no text and no delta; for no delta the base text and an empty delta;
\* for one delta the result of Patch(base, d1).
MergeAllFold ==
    pc = "all" =>
        LET n == Len(deltas)
            Stops == {k \in 1..(n - 1) : RoundStops(k)}
        IN  IF n = 0
            THEN /\ mergedAll.html = oldHTML
                 /\ mergedAll.delta.Operations = <<>>
                 /\ mergedAll.delta.BaseHash = hashString(oldHTML)
                 /\ mergedAll.conflicts = <<>>
                 /\ mergedAll.err = NoErr
            ELSE IF n = 1
            THEN /\ mergedAll.html = Patch(oldHTML, deltas[1]).html
                 /\ mergedAll.err = Patch(oldHTML, deltas[1]).err
                 /\ mergedAll.delta = deltas[1]
                 /\ mergedAll.conflicts = <<>>
            ELSE IF Stops # {}
            THEN LET k == CHOOSE k \in Stops : \A l \in Stops : k <= l
                 IN  /\ mergedAll.err = Round(k).err
                     /\ mergedAll.conflicts = Round(k).conflicts
                     /\ mergedAll.html = <<>>
                     /\ mergedAll.delta = NilDelta
            ELSE /\ mergedAll.html = Round(n - 1).html
                 /\ mergedAll.delta = Round(n - 1).delta
                 /\ mergedAll.conflicts = <<>>
                 /\ mergedAll.err = NoErr

\* C20 witness: MergeAll has run on three deltas; the first round merged
\* two of them and the second found the third in conflict with the result
MergeAllFoldWitness ==
    /\ pc = "all"
    /\ Len(deltas) = 3
    /\ ~RoundStops(1)
    /\ Len(Round(1).delta.Operations) = 2
    /\ Round(2).conflicts # <<>>
    /\ mergedAll.conflicts = Round(2).conflicts

====
